---- MODULE Spec2Model ----
(***************************************************************************)
(* Model of the Hiwonder bus-servo protocol stack (bam/hiwonder):          *)
(*   hiwonder.py                  - HiwonderServo, the single-servo client *)
(*                                  and its speed-estimating subclass      *)
(*   hiwonder_board_controller.py - HiwonderBoardController, board client  *)
(*   hiwonder_board_adapter.py    - HiwonderBoardServo, one servo behind   *)
(*                                  the board, and its speed estimator     *)
(*   hiwonder_board_hwi.py        - HWI, the joints of the robot           *)
(*                                                                         *)
(* One client is constructed on a serial transport.  Every public or       *)
(* private method of the client is one action that runs the whole method:  *)
(* it writes its request frame(s), consumes bytes of the input buffer and  *)
(* leaves a return value or an exception.  The bytes that reach the input  *)
(* buffer before the read deadlines of a call are chosen by the            *)
(* environment (the device, line noise, half-duplex echo).                 *)
(*                                                                         *)
(* Python values:  None            -> PyNone                               *)
(*                 a returned v    -> PyVal(v)                             *)
(*                 raised exception-> PyRaise(name)                        *)
(*                 bytes / list    -> sequence of integers                 *)
(*                 x / 1000.0      -> the integer numerator x (millivolts) *)
(*                 x / 10.0        -> the integer numerator x (decivolts)  *)
(*                 ((u-500)/1000.0)*2*pi -> the integer u - 500            *)
(*                 a / b (speed)   -> the pair [num |-> a, den |-> b]      *)
(* Angles handed to HiwonderServo and HiwonderBoardServo are integers in   *)
(* milliradians; angles handed to HWI are integers in units of 1e-5 rad    *)
(* and its units-to-radians results are integers in units of 1e-8 rad.     *)
(***************************************************************************)
EXTENDS Integers, Sequences, FiniteSets, TLC

VARIABLES client, servo_id, pc, rx, op, arg, written, ret, stream,
          joints_offsets, last_position, last_time,
          timeout,
          torque_enable, goal_position, entries, now, start, return_calls,
          board_last_position, board_last_time

\* the variables of a recording script (record.py, record_board.py): its
\* torque_enable and goal_position, data["entries"], the clock time.time()
\* and the script's start, and the number of set_goal_position calls of its
\* return-to-zero loop
script_vars == <<torque_enable, goal_position, entries, now, start, return_calls>>

\* last_position and last_time of a HiwonderBoardServoWithSpeedEstimation
\* that is fed the samples of a HiwonderServoWithSpeedEstimation
pair_vars == <<board_last_position, board_last_time>>

\* timeout is serial.timeout of the open transport, in milliseconds
vars == <<client, servo_id, pc, rx, op, arg, written, ret, stream,
          joints_offsets, last_position, last_time, timeout, script_vars, pair_vars>>

(***************************************************************************)
(* Bounds of the model.                                                    *)
(***************************************************************************)
\* longest run of garbage (stale bytes + line noise) in front of a reply
MaxNoise == 2
\* largest batch of servos in one board command or board reply
MaxServos == 2
\* longest parameter list handed to _send_command directly
MaxParams == 2
\* most items in a mapping handed to set_position_all
MaxJoints == 3
\* steps of a sweep of goal positions on either side of the centre
MaxSweep == 150
\* half width, in 1e-5 rad, of the window of positions taken one by one
MaxFine == 900
\* latest reading of the wall clock
MaxTime == 2
\* trajectory.duration of a recording script, in steps of the script's clock
MaxDuration == 2

(***************************************************************************)
(* Python values and byte helpers.                                         *)
(***************************************************************************)
PyNone == [kind |-> "None"]

PyVal(v) == [kind |-> "value", val |-> v]

PyRaise(e) == [kind |-> "raise", exc |-> e]

IsByte(b) == b \in 0..255

\* variant: no element is refused
IsByteListLenient(s) == TRUE

\* bytes(list): every element must be in range(256), else ValueError
IsByteList(s) == \A i \in 1..Len(s) : IsByte(s[i])

\* x & 0xFF
LowByte(x) == x % 256

\* variant: x >> 8, without the mask
HighByteUnmasked(x) == x \div 256

\* (x >> 8) & 0xFF
HighByte(x) == (x \div 256) % 256

\* lo | (hi << 8) for two bytes
Word(lo, hi) == lo + hi * 256

\* sum(s), the two halves of s summed apart
RECURSIVE SumSeq(_)
SumSeq(s) ==
    IF s = <<>> THEN 0
    ELSE IF Len(s) = 1 THEN s[1]
    ELSE LET h == Len(s) \div 2
         IN  SumSeq(SubSeq(s, 1, h)) + SumSeq(SubSeq(s, h + 1, Len(s)))

RECURSIVE Flatten(_)
Flatten(ss) == IF ss = <<>> THEN <<>> ELSE Head(ss) \o Flatten(Tail(ss))

\* serial.read(n): up to n bytes of what arrives before the timeout;
\* a non-positive n reads nothing
ReadN(buf, n) == IF n <= 0 THEN <<>> ELSE SubSeq(buf, 1, IF n < Len(buf) THEN n ELSE Len(buf))

DropN(buf, n) == IF n <= 0 THEN buf ELSE SubSeq(buf, (IF n < Len(buf) THEN n ELSE Len(buf)) + 1, Len(buf))

\* all sequences over S of length at most n
SeqUpTo(S, n) == UNION {[1..k -> S] : k \in 0..n}

Prefixes(s) == {SubSeq(s, 1, k) : k \in 0..Len(s)}

(***************************************************************************)
(* HiwonderBoardController: constants.                                     *)
(***************************************************************************)
HEADER == <<85, 85>>

BOARD_CMD_SERVO_MOVE == 3

BOARD_CMD_GET_BATTERY_VOLTAGE == 15

BOARD_CMD_MULT_SERVO_UNLOAD == 20

BOARD_CMD_MULT_SERVO_POS_READ == 21

(***************************************************************************)
(* HiwonderBoardController._send_command: the packet bytes(packet) writes, *)
(* HEADER + [length, command] + params with length = 2 + len(params).      *)
(* No checksum byte is appended.                                           *)
(***************************************************************************)
\* variant: the frame of the class docstring, with the ID byte 0xFE
BoardPacketWithId(command, params) == HEADER \o <<254, 3 + Len(params), command>> \o params

BoardPacket(command, params) == HEADER \o <<2 + Len(params), command>> \o params

\* the effect of _send_command: the frames written and the exception, if any
BoardSend(command, params) ==
    LET packet == BoardPacket(command, params)
    IN  IF IsByteList(packet)
        THEN [frames |-> <<packet>>, exc |-> "none"]
        ELSE [frames |-> <<>>, exc |-> "ValueError"]

(***************************************************************************)
(* HiwonderBoardController._read_response.                                 *)
(* h and header are bytes objects; formatting a bytes object with the      *)
(* format spec 02X (lines 120 and 127) raises TypeError.                   *)
(***************************************************************************)
FormatBytesRaises == TRUE

\* lines 114-123: the loop that waits for the first 0x55
RECURSIVE BoardWaitFirst(_)
BoardWaitFirst(buf) ==
    IF buf = <<>>
    THEN [out |-> "timeout", rest |-> buf]
    ELSE IF Head(buf) # 85
         THEN IF FormatBytesRaises
              THEN [out |-> "raise", rest |-> Tail(buf)]
              ELSE BoardWaitFirst(Tail(buf))
         ELSE [out |-> "found", rest |-> Tail(buf)]

\* lines 125-128: the second header byte (a timeout reads b'')
BoardWaitSecond(buf) ==
    IF buf # <<>> /\ Head(buf) = 85
    THEN [out |-> "found", rest |-> Tail(buf)]
    ELSE IF FormatBytesRaises
         THEN [out |-> "raise", rest |-> DropN(buf, 1)]
         ELSE [out |-> "timeout", rest |-> DropN(buf, 1)]

\* variant: the payload taken as length - 3 bytes, the single-servo offset
BoardReadBodyOffset3(buf) ==
    LET metadata == ReadN(buf, 2)
        after    == DropN(buf, 2)
    IN  IF Len(metadata) # 2
        THEN [ret |-> PyNone, rest |-> after]
        ELSE LET remaining == metadata[1] - 3
                 data      == ReadN(after, remaining)
             IN  IF Len(data) # remaining
                 THEN [ret |-> PyNone, rest |-> DropN(after, remaining)]
                 ELSE [ret |-> PyVal(metadata \o data), rest |-> DropN(after, remaining)]

\* lines 130-144: length, command and the length - 2 bytes that follow
BoardReadBody(buf) ==
    LET metadata == ReadN(buf, 2)
        after    == DropN(buf, 2)
    IN  IF Len(metadata) # 2
        THEN [ret |-> PyNone, rest |-> after]
        ELSE LET length    == metadata[1]
                 command   == metadata[2]
                 remaining == length - 2
                 data      == ReadN(after, remaining)
             IN  IF Len(data) # remaining
                 THEN [ret |-> PyNone, rest |-> DropN(after, remaining)]
                 ELSE [ret |-> PyVal(<<length, command>> \o data),
                       rest |-> DropN(after, remaining)]

BoardReadResponse(buf) ==
    LET first == BoardWaitFirst(buf)
    IN  IF first.out = "timeout" THEN [ret |-> PyNone, rest |-> first.rest]
        ELSE IF first.out = "raise" THEN [ret |-> PyRaise("TypeError"), rest |-> first.rest]
        ELSE LET second == BoardWaitSecond(first.rest)
             IN  IF second.out = "raise"
                 THEN [ret |-> PyRaise("TypeError"), rest |-> second.rest]
                 ELSE IF second.out = "timeout"
                 THEN [ret |-> PyNone, rest |-> second.rest]
                 ELSE BoardReadBody(second.rest)

(***************************************************************************)
(* serial.timeout.  The constructors open the port with timeout=0.1        *)
(* (hiwonder.py line 82) and timeout=0.5 (hiwonder_board_controller.py     *)
(* lines 49 and 65); the board's _read_response sets a timeout override    *)
(* before its scan and puts the old value back in its finally clause.      *)
(* r is the outcome of the scan.                                           *)
(***************************************************************************)
ConfiguredTimeout(c) ==
    IF c \in {"servo", "servo_est", "record", "pair"} THEN 100 ELSE 500

\* variant: the old timeout is put back only when the scan does not raise
TimeoutAfterScan(t, override, r) ==
    IF override # PyNone /\ r.ret.kind = "raise" THEN override.val ELSE t

\* lines 108-110: old_timeout = self.serial.timeout; self.serial.timeout =
\* timeout; lines 145-147: finally, self.serial.timeout = old_timeout
TimeoutAfter(t, override, r) ==
    LET old_timeout == t
        during      == IF override # PyNone THEN override.val ELSE t
    IN  IF override # PyNone THEN old_timeout ELSE during

(***************************************************************************)
(* HiwonderBoardController: the four board commands.                       *)
(***************************************************************************)
\* variant: position and time sent high byte first
RECURSIVE MoveEntriesBigEndian(_)
MoveEntriesBigEndian(cmds) ==
    IF cmds = <<>> THEN <<>>
    ELSE LET c == Head(cmds)
         IN  <<c[1], HighByte(c[2]), LowByte(c[2]), HighByte(c[3]), LowByte(c[3])>>
             \o MoveEntriesBigEndian(Tail(cmds))

\* move_servos lines 174-181: count, then 5 bytes per (servo_id, position, time_ms)
RECURSIVE MoveEntries(_)
MoveEntries(cmds) ==
    IF cmds = <<>> THEN <<>>
    ELSE LET c == Head(cmds)
         IN  <<c[1], LowByte(c[2]), HighByte(c[2]), LowByte(c[3]), HighByte(c[3])>>
             \o MoveEntries(Tail(cmds))

MoveParams(cmds) == <<Len(cmds)>> \o MoveEntries(cmds)

\* get_battery_voltage lines 204-209, on the value _read_response returned
BatteryResult(r) ==
    IF r.kind = "raise" THEN r
    ELSE IF r.kind = "value" /\ r.val[2] = BOARD_CMD_GET_BATTERY_VOLTAGE /\ r.val[1] = 4
         THEN PyVal(Word(r.val[3], r.val[4]))
         ELSE PyNone

\* read_servo_positions lines 260-267: the loop over range(count).  The
\* offset grows with i, so once the test of line 262 fails it fails for every
\* later i and the remaining iterations append nothing.
RECURSIVE ParsePositions(_, _, _)
ParsePositions(response, i, count) ==
    IF i >= count THEN <<>>
    ELSE LET offset == 3 + i * 3
         IN  IF offset + 2 < Len(response)
             THEN <<(<<response[offset + 1],
                       Word(response[offset + 2], response[offset + 3])>>)>>
                  \o ParsePositions(response, i + 1, count)
             ELSE <<>>

\* variant: a response with fewer bytes than its count announces is refused
PositionsResultStrict(r) ==
    IF r.kind = "raise" THEN r
    ELSE IF r.kind = "value" /\ Len(r.val) >= 3 /\ Len(r.val) >= 3 + 3 * r.val[3]
         THEN PyVal(ParsePositions(r.val, 0, r.val[3]))
         ELSE PyNone

\* read_servo_positions lines 254-270 (response[k] is val[k + 1] here)
PositionsResult(r) ==
    IF r.kind = "raise" THEN r
    ELSE IF r.kind = "value" /\ Len(r.val) >= 3
         THEN PyVal(ParsePositions(r.val, 0, r.val[3]))
         ELSE PyNone

(***************************************************************************)
(* HiwonderServo: constants.                                               *)
(***************************************************************************)
CMD_SERVO_MOVE_TIME_WRITE == 1

CMD_SERVO_TEMP_READ == 26

CMD_SERVO_VIN_READ == 27

CMD_SERVO_POS_READ == 28

CMD_SERVO_LOAD_OR_UNLOAD_WRITE == 31

(***************************************************************************)
(* HiwonderServo._calculate_checksum: (~sum(data)) & 0xFF.                 *)
(* ~s is -s - 1, and & 0xFF takes it modulo 256.                           *)
(***************************************************************************)
\* variant: the sum without the complement
CalculateChecksumNoComplement(data) == SumSeq(data) % 256

CalculateChecksum(data) == (-SumSeq(data) - 1) % 256

(***************************************************************************)
(* HiwonderServo._send_command: header, id, length, command, params,       *)
(* checksum over packet[2:].                                               *)
(***************************************************************************)
\* variant: the command byte ahead of the length byte
ServoPacketCommandFirst(id, command, params) ==
    LET length == Len(params) + 3
        body   == <<id, command, length>> \o params
    IN  <<85, 85>> \o body \o <<CalculateChecksum(body)>>

ServoPacket(id, command, params) ==
    LET length == Len(params) + 3
        body   == <<id, length, command>> \o params
    IN  <<85, 85>> \o body \o <<CalculateChecksum(body)>>

\* variant: the request is written a second time
ServoSendTwice(id, command, params) ==
    LET length == Len(params) + 3
    IN  IF IsByteList(<<id, length, command>> \o params)
        THEN [frames |-> <<ServoPacket(id, command, params),
                           ServoPacket(id, command, params)>>, exc |-> "none"]
        ELSE [frames |-> <<>>, exc |-> "ValueError"]

ServoSend(id, command, params) ==
    LET length == Len(params) + 3
    IN  IF IsByteList(<<id, length, command>> \o params)
        THEN [frames |-> <<ServoPacket(id, command, params)>>, exc |-> "none"]
        ELSE [frames |-> <<>>, exc |-> "ValueError"]

(***************************************************************************)
(* HiwonderServo._read_response(expected_length).                          *)
(* buf holds the bytes that reach the input buffer before the deadlines of *)
(* the call.  The loop of lines 121-127 takes the buffer two bytes at a    *)
(* time (in_waiting >= 2, read(2)) until a pair equals 0x55 0x55; when     *)
(* fewer than two bytes are left the 100 ms deadline passes and the        *)
(* while-else returns None.                                                *)
(***************************************************************************)
RECURSIVE ServoFindHeader(_)
ServoFindHeader(buf) ==
    IF Len(buf) < 2
    THEN [out |-> "timeout", rest |-> buf]
    ELSE IF SubSeq(buf, 1, 2) = <<85, 85>>
         THEN [out |-> "found", rest |-> DropN(buf, 2)]
         ELSE ServoFindHeader(DropN(buf, 2))

ServoReadResponse(buf, expected_length) ==
    LET h == ServoFindHeader(buf)
    IN  IF h.out = "timeout"
        THEN [ret |-> PyNone, rest |-> h.rest]
        ELSE LET data == ReadN(h.rest, expected_length - 2)
             IN  IF Len(data) < expected_length - 2
                 THEN [ret |-> PyNone, rest |-> DropN(h.rest, expected_length - 2)]
                 ELSE [ret |-> PyVal(<<85, 85>> \o data),
                       rest |-> DropN(h.rest, expected_length - 2)]

\* variant: a failed read handed on as None instead of 0.0
PositionResultNone(r) ==
    IF r.kind # "value" \/ Len(r.val) < 8
    THEN PyNone
    ELSE PyVal(Word(r.val[6], r.val[7]) - 500)

\* read_position lines 183-192; the value is ((units - 500) / 1000.0) * 2 pi,
\* kept as the integer units - 500
PositionResult(r) ==
    IF r.kind # "value" \/ Len(r.val) < 8
    THEN PyVal(0)
    ELSE PyVal(Word(r.val[6], r.val[7]) - 500)

\* read_voltage lines 204-210 (response[5] / 10.0, kept as response[5]) and
\* read_temperature lines 222-227
ByteResult(r) ==
    IF r.kind # "value" \/ Len(r.val) < 7
    THEN PyVal(0)
    ELSE PyVal(r.val[6])

(***************************************************************************)
(* set_goal_position lines 160-161: int(500 + (position / (2 pi)) * 1000)  *)
(* clipped to [0, 1000].  position is given in milliradians; 2 pi is taken *)
(* as TwoPiNum / TwoPiDen = 6.2831853078..., which gives the units of the  *)
(* floating-point expression for every whole milliradian from -8 to 8 rad. *)
(* int() truncates toward zero.                                            *)
(***************************************************************************)
TwoPiNum == 208696

TwoPiDen == 33215

PyInt(num, den) == IF num >= 0 THEN num \div den ELSE -((-num) \div den)

Clip(x, lo, hi) == IF x < lo THEN lo ELSE IF x > hi THEN hi ELSE x

Abs(x) == IF x < 0 THEN -x ELSE x

Max(a, b) == IF a >= b THEN a ELSE b

Min(a, b) == IF a <= b THEN a ELSE b

RadToUnits(mrad) == Clip(PyInt(500 * TwoPiNum + mrad * TwoPiDen, TwoPiNum), 0, 1000)

\* lines 164-169
GoalParams(mrad, duration) ==
    LET position_units == RadToUnits(mrad)
    IN  <<LowByte(position_units), HighByte(position_units),
          LowByte(duration), HighByte(duration)>>

(***************************************************************************)
(* HiwonderBoardServo (hiwonder_board_adapter.py): one servo behind the    *)
(* board controller.                                                       *)
(***************************************************************************)
\* variant: torque on is sent to the board as well
AdapterTorqueBothWays(id, enable) ==
    BoardSend(BOARD_CMD_MULT_SERVO_UNLOAD, <<1, id>>)

\* set_torque_enable lines 61-64: unload_servos([self.servo_id]) when enable
\* is false, nothing otherwise
AdapterTorque(id, enable) ==
    IF ~enable
    THEN BoardSend(BOARD_CMD_MULT_SERVO_UNLOAD, <<1, id>>)
    ELSE [frames |-> <<>>, exc |-> "none"]

\* variant: the duration is handed on as given
AdapterMoveAsGiven(id, mrad, duration) ==
    <<(<<id, RadToUnits(mrad), duration>>)>>

\* set_goal_position lines 76-84: the same conversion as HiwonderServo, a
\* duration of 0 replaced by 20 ms, one entry handed to move_servos
AdapterMove(id, mrad, duration) ==
    <<(<<id, RadToUnits(mrad), IF duration = 0 THEN 20 ELSE duration>>)>>

\* read_position lines 95-105 on what read_servo_positions returned (not an
\* exception): the first pair of this servo, else 0.0
RECURSIVE FirstUnitsOf(_, _)
FirstUnitsOf(pairs, id) ==
    IF pairs = <<>> THEN 0
    ELSE IF Head(pairs)[1] = id THEN Head(pairs)[2] - 500
         ELSE FirstUnitsOf(Tail(pairs), id)

AdapterPosition(positions, id) ==
    IF positions.kind # "value" THEN 0 ELSE FirstUnitsOf(positions.val, id)

\* read_voltage lines 114-115 on what get_battery_voltage returned
AdapterVoltage(voltage) == IF voltage.kind = "value" THEN voltage.val ELSE 0

(***************************************************************************)
(* The speed estimators: HiwonderServoWithSpeedEstimation.read_data        *)
(* (hiwonder.py lines 278-286) and                                         *)
(* HiwonderBoardServoWithSpeedEstimation.read_data                         *)
(* (hiwonder_board_adapter.py lines 176-184), the same statements.         *)
(* lp and lt are last_position and last_time before the call.              *)
(***************************************************************************)
ZeroSpeed == [num |-> 0, den |-> 1]

\* variant: the quotient is taken whenever a previous sample exists
SpeedOfUnguarded(position, current_time, lp, lt) ==
    IF lp # PyNone /\ lt # PyNone
    THEN [num |-> position - lp.val, den |-> current_time - lt.val]
    ELSE ZeroSpeed

\* speed = 0.0; with a previous sample and dt > 0 it is
\* (position - last_position) / dt
SpeedOf(position, current_time, lp, lt) ==
    IF lp # PyNone /\ lt # PyNone
    THEN LET dt == current_time - lt.val
         IN  IF dt > 0
             THEN [num |-> position - lp.val, den |-> dt]
             ELSE ZeroSpeed
    ELSE ZeroSpeed

\* variant: the sample is kept only when a speed could be computed from it
SampleOfGuarded(position, current_time, lp, lt) ==
    IF lt # PyNone /\ current_time - lt.val <= 0
    THEN [last_position |-> lp, last_time |-> lt]
    ELSE [last_position |-> PyVal(position), last_time |-> PyVal(current_time)]

\* self.last_position = position; self.last_time = current_time
SampleOf(position, current_time, lp, lt) ==
    [last_position |-> PyVal(position), last_time |-> PyVal(current_time)]

\* variant: the difference taken the other way round
BoardSpeedOfReversed(position, current_time, lp, lt) ==
    IF lp # PyNone /\ lt # PyNone
    THEN LET dt == current_time - lt.val
         IN  IF dt > 0
             THEN [num |-> lp.val - position, den |-> dt]
             ELSE ZeroSpeed
    ELSE ZeroSpeed

\* HiwonderBoardServoWithSpeedEstimation.read_data, hiwonder_board_adapter.py
\* lines 177-181
BoardSpeedOf(position, current_time, lp, lt) ==
    IF lp # PyNone /\ lt # PyNone
    THEN LET dt == current_time - lt.val
         IN  IF dt > 0
             THEN [num |-> position - lp.val, den |-> dt]
             ELSE ZeroSpeed
    ELSE ZeroSpeed

\* hiwonder_board_adapter.py lines 183-184
BoardSampleOf(position, current_time, lp, lt) ==
    [last_position |-> PyVal(position), last_time |-> PyVal(current_time)]

(***************************************************************************)
(* HWI (hiwonder_board_hwi.py): the joints of the robot on one board.      *)
(***************************************************************************)
\* lines 41-56: the joint names in the order of the dict, and their servo ids
JointNames ==
    <<"left_hip_yaw", "left_hip_roll", "left_hip_pitch", "left_knee", "left_ankle",
      "neck_pitch", "head_pitch", "head_yaw", "head_roll",
      "right_hip_yaw", "right_hip_roll", "right_hip_pitch", "right_knee", "right_ankle">>

JointIds == <<100, 101, 102, 103, 104, 110, 111, 112, 113, 105, 106, 107, 108, 109>>

KnownJoints == {JointNames[i] : i \in 1..Len(JointNames)}

joints == [n \in KnownJoints |-> JointIds[CHOOSE i \in 1..Len(JointNames) : JointNames[i] = n]]

\* line 93
default_move_duration_ms == 20

\* 4.18879, the 240 degree span in radians, times 1e5
SpanE5 == 418879

\* variant: no clamp to the valid range
unclamped_radians_to_servo_units(rad5) == PyInt(500 * SpanE5 + rad5 * 1000, SpanE5)

\* _radians_to_servo_units lines 111-115: units = 500 + radians * 1000 / 4.18879,
\* int(max(0, min(1000, units))).  rad5 is the angle in units of 1e-5 rad and
\* units is kept multiplied by SpanE5 until int() truncates it.
radians_to_servo_units(rad5) ==
    LET units == 500 * SpanE5 + rad5 * 1000
    IN  PyInt(Clip(units, 0, 1000 * SpanE5), SpanE5)

\* variant: the centre of 500 units is not taken off
uncentred_servo_units_to_radians(units) == units * SpanE5

\* _servo_units_to_radians line 128: (units - 500) * 4.18879 / 1000.0, in
\* units of 1e-8 rad
servo_units_to_radians(units) == (units - 500) * SpanE5

\* np.around(x, 3): x in units of 1e-8 rad rounded to whole milliradians,
\* halves to the even neighbour
Around3(x8) ==
    LET q == x8 \div 100000
        r == x8 % 100000
    IN  IF r > 50000 \/ (r = 50000 /\ q % 2 = 1) THEN q + 1 ELSE q

\* variant: an unknown joint is skipped as in set_position_all
SetPositionLenient(joint_name, pos, offsets) ==
    IF joint_name \notin DOMAIN joints
    THEN [frames |-> <<>>, exc |-> "none"]
    ELSE BoardSend(BOARD_CMD_SERVO_MOVE,
                   MoveParams(<<(<<joints[joint_name],
                                   radians_to_servo_units(pos + offsets[joint_name]),
                                   default_move_duration_ms>>)>>))

\* variant: only the ten leg joints are unloaded
TurnOffLegs ==
    BoardSend(BOARD_CMD_MULT_SERVO_UNLOAD,
              <<10>> \o SubSeq(JointIds, 1, 5) \o SubSeq(JointIds, 10, 14))

\* turn_off lines 179-180: unload_servos(list(self.joints.values()))
TurnOff == BoardSend(BOARD_CMD_MULT_SERVO_UNLOAD, <<Len(JointIds)>> \o JointIds)

\* set_position lines 191-203
SetPosition(joint_name, pos, offsets) ==
    IF joint_name \notin DOMAIN joints
    THEN [frames |-> <<>>, exc |-> "ValueError"]
    ELSE BoardSend(BOARD_CMD_SERVO_MOVE,
                   MoveParams(<<(<<joints[joint_name],
                                   radians_to_servo_units(pos + offsets[joint_name]),
                                   default_move_duration_ms>>)>>))

\* variant: the loop ends at the first unknown joint
RECURSIVE ServoCommandsUntilUnknown(_, _, _)
ServoCommandsUntilUnknown(joints_positions, move_duration_ms, offsets) ==
    IF joints_positions = <<>> THEN <<>>
    ELSE LET joint_name == Head(joints_positions)[1]
             position   == Head(joints_positions)[2]
         IN  IF joint_name \notin DOMAIN joints
             THEN <<>>
             ELSE <<(<<joints[joint_name],
                       radians_to_servo_units(position + offsets[joint_name]),
                       move_duration_ms>>)>>
                  \o ServoCommandsUntilUnknown(Tail(joints_positions), move_duration_ms, offsets)

\* set_position_all lines 217-232: the loop over the items of the mapping,
\* given as the sequence of its (joint_name, position) items
RECURSIVE ServoCommands(_, _, _)
ServoCommands(joints_positions, move_duration_ms, offsets) ==
    IF joints_positions = <<>> THEN <<>>
    ELSE LET joint_name == Head(joints_positions)[1]
             position   == Head(joints_positions)[2]
         IN  IF joint_name \notin DOMAIN joints
             THEN ServoCommands(Tail(joints_positions), move_duration_ms, offsets)
             ELSE <<(<<joints[joint_name],
                       radians_to_servo_units(position + offsets[joint_name]),
                       move_duration_ms>>)>>
                  \o ServoCommands(Tail(joints_positions), move_duration_ms, offsets)

\* set_position_all lines 213-236: nothing is sent for an empty command list
SetPositionAll(joints_positions, move_duration_ms, offsets) ==
    LET duration == IF move_duration_ms = PyNone
                    THEN default_move_duration_ms ELSE move_duration_ms.val
        servo_commands == ServoCommands(joints_positions, duration, offsets)
    IN  IF servo_commands # <<>>
        THEN BoardSend(BOARD_CMD_SERVO_MOVE, MoveParams(servo_commands))
        ELSE [frames |-> <<>>, exc |-> "none"]

InSeq(x, s) == \E i \in 1..Len(s) : s[i] = x

\* get_present_positions lines 253-257: the servo ids of the joints not ignored
RECURSIVE IdsToRead(_, _)
IdsToRead(names, ignore) ==
    IF names = <<>> THEN <<>>
    ELSE (IF InSeq(Head(names), ignore) THEN <<>> ELSE <<joints[Head(names)]>>)
         \o IdsToRead(Tail(names), ignore)

\* line 267: the dict built from the pairs; a later pair of an id replaces
\* an earlier one
HasUnits(pairs, id) == \E i \in 1..Len(pairs) : pairs[i][1] = id

UnitsOf(pairs, id) ==
    pairs[CHOOSE i \in 1..Len(pairs) :
            /\ pairs[i][1] = id
            /\ \A k \in (i + 1)..Len(pairs) : pairs[k][1] # id][2]

\* variant: the offset is added on the way back as on the way out
RECURSIVE PresentPositionsOffsetAdded(_, _, _, _)
PresentPositionsOffsetAdded(names, pairs, ignore, offsets) ==
    IF names = <<>> THEN <<>>
    ELSE LET joint_name == Head(names)
             servo_id_  == joints[joint_name]
         IN  (IF InSeq(joint_name, ignore) THEN <<>>
              ELSE IF HasUnits(pairs, servo_id_)
                   THEN <<Around3(servo_units_to_radians(UnitsOf(pairs, servo_id_))
                                  + offsets[joint_name] * 1000)>>
                   ELSE <<0>>)
             \o PresentPositionsOffsetAdded(Tail(names), pairs, ignore, offsets)

\* variant: a joint without a report gets no entry
RECURSIVE PresentPositionsReportedOnly(_, _, _, _)
PresentPositionsReportedOnly(names, pairs, ignore, offsets) ==
    IF names = <<>> THEN <<>>
    ELSE LET joint_name == Head(names)
             servo_id_  == joints[joint_name]
         IN  (IF InSeq(joint_name, ignore) THEN <<>>
              ELSE IF HasUnits(pairs, servo_id_)
                   THEN <<Around3(servo_units_to_radians(UnitsOf(pairs, servo_id_))
                                  - offsets[joint_name] * 1000)>>
                   ELSE <<>>)
             \o PresentPositionsReportedOnly(Tail(names), pairs, ignore, offsets)

\* lines 270-289: one value per joint not ignored, in the order of the dict:
\* the radians of the reported units minus the offset, or 0.0 without a
\* report, rounded to 3 decimals (whole milliradians)
RECURSIVE PresentPositions(_, _, _, _)
PresentPositions(names, pairs, ignore, offsets) ==
    IF names = <<>> THEN <<>>
    ELSE LET joint_name == Head(names)
             servo_id_  == joints[joint_name]
         IN  (IF InSeq(joint_name, ignore) THEN <<>>
              ELSE IF HasUnits(pairs, servo_id_)
                   THEN <<Around3(servo_units_to_radians(UnitsOf(pairs, servo_id_))
                                  - offsets[joint_name] * 1000)>>
                   ELSE <<0>>)
             \o PresentPositions(Tail(names), pairs, ignore, offsets)

\* variant: an exception of the board read leaves the method
GetPresentPositionsUncaught(positions, ignore, offsets) ==
    IF positions.kind = "raise" THEN positions
    ELSE IF positions.kind # "value" THEN PyNone
    ELSE PyVal(PresentPositions(JointNames, positions.val, ignore, offsets))

\* lines 251-293 on what read_servo_positions returned: None or an exception
\* (caught by the except clause) gives None
GetPresentPositions(positions, ignore, offsets) ==
    IF positions.kind # "value" THEN PyNone
    ELSE PyVal(PresentPositions(JointNames, positions.val, ignore, offsets))

(***************************************************************************)
(* The environment: what the callers pass and what the wire delivers.      *)
(***************************************************************************)
ServoIds == {1, 2}

\* bytes of line noise, half-duplex echo or stale replies
NoiseBytes == {0, 85}

NoiseRuns(k) == SeqUpTo(NoiseBytes, k)

\* (servo_id, position, time_ms) entries of a move batch
MoveCommands == {<<i, p, t>> : i \in ServoIds, p \in {0, 1000}, t \in {20, 1000}}

MoveBatches == SeqUpTo(MoveCommands, MaxServos)

\* 16-bit values with every low byte and every high byte, the byte and word
\* boundaries, and values of 65536 and more
WordValues ==
    {257 * k : k \in 0..255} \cup {255, 256, 1000, 65280}
    \cup {65536, 65556, 131071}

\* batches of one entry with such a position (up to 65535) and such a time
WordBatches ==
    {<<(<<1, v, 20>>)>> : v \in {w \in WordValues : w < 65536}}
    \cup {<<(<<1, 500, v>>)>> : v \in WordValues}

IdLists == SeqUpTo(ServoIds, MaxServos)

\* id lists of a position query: ascending, no id twice
QueryIdLists == {ids \in IdLists : \A i \in 1..(Len(ids) - 1) : ids[i] < ids[i + 1]}

\* command and parameter lists handed to _send_command directly; the echo of
\* such a frame is among the bytes a read may find
SendCommands == {CMD_SERVO_MOVE_TIME_WRITE, CMD_SERVO_POS_READ, 85}

SendParams == SeqUpTo({0, 85, 244}, MaxParams)

\* parameter lists around the longest one the length byte can count: 252
\* bytes (length byte 255 single-servo), 253 (255 for the board) and 254
LongParams == {[i \in 1..n |-> 0] : n \in 252..254}

\* move batches of 50 entries (length byte 253) and of 51 (258)
LongBatches == {[i \in 1..n |-> <<1, 500, 20>>] : n \in 50..51}

\* (id, pos_lo, pos_hi) triples of a board position reply: servo 1 at 1000
\* units, servo 2 at 500 units
Triples == {<<1, 232, 3>>, <<2, 244, 1>>}

\* payloads of board replies, whole or cut short: battery readings of 0 mV
\* and 7096 mV, and a count byte followed by triples
BoardFullPayloads ==
    {<<0, 0>>, <<184, 27>>}
    \cup {<<n>> \o Flatten(ts) : n \in 0..MaxServos, ts \in SeqUpTo(Triples, MaxServos)}

BoardPayloads == UNION {Prefixes(p) : p \in BoardFullPayloads}

\* what follows the garbage: nothing, a cut header, or header, declared
\* length, command and payload, the declared length one short, right or
\* one long (the reply then ends before its declared length)
BoardHeads ==
    {<<>>, <<85>>, <<85, 85>>, <<85, 85, 4>>}
    \cup {<<85, 85, Len(p) + 2 + d, c>> \o p :
            p \in BoardPayloads,
            c \in {BOARD_CMD_GET_BATTERY_VOLTAGE, BOARD_CMD_MULT_SERVO_POS_READ},
            d \in {-1, 0, 1}}
    \cup {BoardPacket(c, p) : c \in SendCommands, p \in SendParams}

BoardArriving(k) == {n \o h : n \in NoiseRuns(k), h \in BoardHeads}

\* s with byte i replaced by another byte value
Corrupt(s, i) == [s EXCEPT ![i] = (s[i] + 1) % 256]

\* replies of a servo: position 500, 1000 and 21845 units, a voltage or
\* temperature byte, and the echo of any frame _send_command can write
ServoReplies(id) ==
    {ServoPacket(id, CMD_SERVO_POS_READ, p) : p \in {<<244, 1>>, <<232, 3>>, <<85, 85>>}}
    \cup {ServoPacket(id, c, <<v>>) : c \in {CMD_SERVO_VIN_READ, CMD_SERVO_TEMP_READ},
                                      v \in {0, 74}}
    \cup {ServoPacket(id, c, p) : c \in SendCommands, p \in SendParams}

\* a reply with one of its parameter bytes (positions 6 .. Len - 1) corrupted
CorruptReplies(id) ==
    UNION {{Corrupt(f, i) : i \in 6..(Len(f) - 1)} : f \in ServoReplies(id)}

ServoHeads(id) == UNION {Prefixes(f) : f \in ServoReplies(id) \cup CorruptReplies(id)}

ServoArriving(id, k) == {n \o h : n \in NoiseRuns(k), h \in ServoHeads(id)}

\* goal positions in milliradians and durations in milliseconds: values
\* beyond every range, and a sweep across the 240 degree range in steps of
\* 15 mrad
GoalPositions ==
    {-7000, -3142, -2094, 0, 1000, 2094, 3141, 7000}
    \cup {15 * k : k \in (-MaxSweep)..MaxSweep}

Durations == {0, 20, 256, 1000, 65535, 65536, 65556}

\* total frame lengths asked of _read_response: 6 bytes around the parameters
ExpectedLengths == 6..(6 + MaxParams)

\* duck_config.joints_offset (hiwonder_board_hwi.py line 80), in units of
\* 1e-5 rad: no offsets, or trims of 0.00037, -0.5236 and 1.2 rad
NoOffsets == [n \in KnownJoints |-> 0]

TrimOffsets ==
    [n \in KnownJoints |->
        IF n = "left_knee" THEN 37
        ELSE IF n = "head_yaw" THEN -52360
        ELSE IF n = "right_ankle" THEN 120000
        ELSE 0]

OffsetTables == {NoOffsets, TrimOffsets}

\* joint names handed to HWI: three joints of the robot and a name it lacks
HwiNames == {"left_knee", "head_yaw", "right_ankle", "tail"}

\* positions handed to set_position, in units of 1e-5 rad: beyond the range,
\* every 1e-5 rad around the centre, and a sweep across the range
HwiPositions ==
    {-300000, 250000}
    \cup ((-MaxFine)..MaxFine)
    \cup {1499 * k : k \in (-MaxSweep)..MaxSweep}

\* the items of a mapping handed to set_position_all, no name twice
BatchPositions == {-300000, 0, 136800}

JointMappings ==
    {m \in SeqUpTo(HwiNames \X BatchPositions, MaxJoints) :
        \A i, k \in 1..Len(m) : i # k => m[i][1] # m[k][1]}

\* move_duration_ms of set_position_all: None or a number of milliseconds
MoveDurations == {PyNone, PyVal(1000)}

\* ignore lists of get_present_positions
IgnoreLists == {<<>>, <<"left_knee">>}

\* board replies to the position query of HWI: (id, pos_lo, pos_hi) triples
\* of two joints at 0, 501 and 1000 units
HwiTriples ==
    {<<joints[n], LowByte(u), HighByte(u)>> : n \in {"left_knee", "head_yaw"},
                                             u \in {0, 501, 1000}}

HwiHeads ==
    {<<>>, <<85>>}
    \cup {BoardPacket(BOARD_CMD_MULT_SERVO_POS_READ, <<Len(ts)>> \o Flatten(ts)) :
            ts \in SeqUpTo(HwiTriples, MaxServos)}

HwiArriving(k) == {n \o h : n \in NoiseRuns(k), h \in HwiHeads}

\* time.time() at the start of a read_data call; the wall clock may stand
\* still or step back between two calls
Times == 0..MaxTime

\* what reaches the input buffer during each read of a read_data call of the
\* single-servo estimator: nothing, a reply, or a reply behind a noise byte
EstPositionReplies(id) ==
    {<<>>}
    \cup {ServoPacket(id, CMD_SERVO_POS_READ, p) : p \in {<<0, 0>>, <<244, 1>>, <<232, 3>>}}
    \cup {<<0>> \o ServoPacket(id, CMD_SERVO_POS_READ, <<232, 3>>)}

EstByteReplies(id, c) == {<<>>, ServoPacket(id, c, <<74>>)}

\* the same for the estimator behind the board: nothing, a noise byte, a
\* position report of this servo or of another one, an empty report
EstBoardPositionReplies(id) ==
    {<<>>, <<0>>}
    \cup {BoardPacket(BOARD_CMD_MULT_SERVO_POS_READ, p) :
            p \in {<<0>>, <<1, id, 0, 0>>, <<1, id, 244, 1>>, <<1, id, 232, 3>>,
                   <<1, id + 1, 232, 3>>}}

EstBoardVoltageReplies ==
    {<<>>, <<0>>, BoardPacket(BOARD_CMD_GET_BATTERY_VOLTAGE, <<184, 27>>)}

(***************************************************************************)
(* Construction: the input buffer is reset (hiwonder.py line 86,           *)
(* hiwonder_board_controller.py line 69).                                  *)
(***************************************************************************)
\* no recording script runs
NoScript ==
    /\ torque_enable = FALSE
    /\ goal_position = 0
    /\ entries = <<>>
    /\ now = 0
    /\ start = 0
    /\ return_calls = 0

\* no second estimator
NoPair ==
    /\ board_last_position = PyNone
    /\ board_last_time = PyNone

Init ==
    /\ client \in {"servo", "board"}
    /\ servo_id \in ServoIds
    /\ pc = "ready"
    /\ rx = <<>>
    /\ op = "init"
    /\ arg = <<>>
    /\ written = <<>>
    /\ ret = PyNone
    /\ stream = <<>>
    /\ joints_offsets = NoOffsets
    /\ last_position = PyNone
    /\ last_time = PyNone
    /\ timeout = ConfiguredTimeout(client)
    /\ NoScript
    /\ NoPair

\* a write-only call: frames written, nothing read
WriteOnly(name, a, s, value) ==
    /\ pc' = "returned"
    /\ op' = name
    /\ arg' = a
    /\ written' = s.frames
    /\ ret' = IF s.exc = "none" THEN value ELSE PyRaise(s.exc)
    /\ stream' = <<>>
    /\ UNCHANGED <<client, servo_id, rx, joints_offsets, last_position, last_time,
                 timeout, script_vars, pair_vars>>

\* a request followed by a read of buf; r is the read's outcome
Query(name, a, s, buf, r, value) ==
    /\ pc' = "returned"
    /\ op' = name
    /\ arg' = a
    /\ written' = s.frames
    /\ ret' = IF s.exc = "none" THEN value ELSE PyRaise(s.exc)
    /\ stream' = IF s.exc = "none" THEN buf ELSE <<>>
    /\ rx' = IF s.exc = "none" THEN r.rest ELSE rx
    /\ UNCHANGED <<client, servo_id, joints_offsets, last_position, last_time,
                 timeout, script_vars, pair_vars>>

\* a board request followed by _read_response(timeout=override)
BoardQuery(name, a, s, buf, r, value, override) ==
    /\ pc' = "returned"
    /\ op' = name
    /\ arg' = a
    /\ written' = s.frames
    /\ ret' = IF s.exc = "none" THEN value ELSE PyRaise(s.exc)
    /\ stream' = IF s.exc = "none" THEN buf ELSE <<>>
    /\ rx' = IF s.exc = "none" THEN r.rest ELSE rx
    /\ timeout' = IF s.exc = "none" THEN TimeoutAfter(timeout, override, r) ELSE timeout
    /\ UNCHANGED <<client, servo_id, joints_offsets, last_position, last_time,
                   script_vars, pair_vars>>

\* the timeout argument of _read_response: None or 1.0 s
Overrides == {PyNone, PyVal(1000)}

\* a call is explored when the unread bytes of earlier calls are a short run
\* of noise bytes; with anything else left over the caller reconnects first
Ready == pc = "ready" /\ rx \in NoiseRuns(MaxNoise)

(***************************************************************************)
(* HiwonderBoardController operations.                                     *)
(***************************************************************************)
B_send_command ==
    /\ Ready /\ client = "board"
    /\ \E c \in SendCommands, p \in SendParams \cup LongParams :
         WriteOnly("B_send_command", [command |-> c, params |-> p], BoardSend(c, p), PyNone)

B_read_response ==
    /\ Ready /\ client = "board"
    /\ \E arriving \in BoardArriving(MaxNoise - Len(rx)), override \in Overrides :
         LET buf == rx \o arriving
             r   == BoardReadResponse(buf)
         IN  BoardQuery("B_read_response", override, [frames |-> <<>>, exc |-> "none"],
                        buf, r, r.ret, override)

move_servos ==
    /\ Ready /\ client = "board"
    /\ \E cmds \in MoveBatches \cup LongBatches \cup WordBatches :
         WriteOnly("move_servos", cmds,
                   BoardSend(BOARD_CMD_SERVO_MOVE, MoveParams(cmds)), PyVal(TRUE))

unload_servos ==
    /\ Ready /\ client = "board"
    /\ \E ids \in IdLists :
         WriteOnly("unload_servos", ids,
                   BoardSend(BOARD_CMD_MULT_SERVO_UNLOAD, <<Len(ids)>> \o ids), PyVal(TRUE))

get_battery_voltage ==
    /\ Ready /\ client = "board"
    /\ \E arriving \in BoardArriving(MaxNoise - Len(rx)) :
         LET buf == rx \o arriving
             r   == BoardReadResponse(buf)
         IN  BoardQuery("get_battery_voltage", <<>>,
                        BoardSend(BOARD_CMD_GET_BATTERY_VOLTAGE, <<>>), buf, r,
                        BatteryResult(r.ret), PyVal(1000))

read_servo_positions ==
    /\ Ready /\ client = "board"
    /\ \E ids \in QueryIdLists, arriving \in BoardArriving(MaxNoise - Len(rx)) :
         LET buf == rx \o arriving
             r   == BoardReadResponse(buf)
         IN  BoardQuery("read_servo_positions", ids,
                        BoardSend(BOARD_CMD_MULT_SERVO_POS_READ, <<Len(ids)>> \o ids),
                        buf, r, PositionsResult(r.ret), PyVal(1000))

(***************************************************************************)
(* HiwonderServo operations.                                               *)
(***************************************************************************)
S_send_command ==
    /\ Ready /\ client = "servo"
    /\ \E c \in SendCommands, p \in SendParams \cup LongParams :
         WriteOnly("S_send_command", [command |-> c, params |-> p],
                   ServoSend(servo_id, c, p), PyNone)

S_read_response ==
    /\ Ready /\ client = "servo"
    /\ \E n \in ExpectedLengths, arriving \in ServoArriving(servo_id, MaxNoise - Len(rx)) :
         LET buf == rx \o arriving
             r   == ServoReadResponse(buf, n)
         IN  Query("S_read_response", n, [frames |-> <<>>, exc |-> "none"], buf, r, r.ret)

set_torque_enable ==
    /\ Ready /\ client = "servo"
    /\ \E enable \in BOOLEAN :
         WriteOnly("set_torque_enable", enable,
                   ServoSend(servo_id, CMD_SERVO_LOAD_OR_UNLOAD_WRITE,
                             <<IF enable THEN 1 ELSE 0>>), PyNone)

set_goal_position ==
    /\ Ready /\ client = "servo"
    /\ \E position \in GoalPositions, duration \in Durations :
         WriteOnly("set_goal_position", <<position, duration>>,
                   ServoSend(servo_id, CMD_SERVO_MOVE_TIME_WRITE,
                             GoalParams(position, duration)), PyNone)

read_position ==
    /\ Ready /\ client = "servo"
    /\ \E arriving \in ServoArriving(servo_id, MaxNoise - Len(rx)) :
         LET buf == rx \o arriving
             r   == ServoReadResponse(buf, 8)
         IN  Query("read_position", <<>>, ServoSend(servo_id, CMD_SERVO_POS_READ, <<>>),
                   buf, r, PositionResult(r.ret))

read_voltage ==
    /\ Ready /\ client = "servo"
    /\ \E arriving \in ServoArriving(servo_id, MaxNoise - Len(rx)) :
         LET buf == rx \o arriving
             r   == ServoReadResponse(buf, 7)
         IN  Query("read_voltage", <<>>, ServoSend(servo_id, CMD_SERVO_VIN_READ, <<>>),
                   buf, r, ByteResult(r.ret))

read_temperature ==
    /\ Ready /\ client = "servo"
    /\ \E arriving \in ServoArriving(servo_id, MaxNoise - Len(rx)) :
         LET buf == rx \o arriving
             r   == ServoReadResponse(buf, 7)
         IN  Query("read_temperature", <<>>, ServoSend(servo_id, CMD_SERVO_TEMP_READ, <<>>),
                   buf, r, ByteResult(r.ret))

(***************************************************************************)
(* HiwonderBoardServo operations.                                          *)
(***************************************************************************)
A_set_goal_position ==
    /\ Ready /\ client = "adapter"
    /\ \E position \in GoalPositions, duration \in Durations :
         WriteOnly("A_set_goal_position", <<position, duration>>,
                   BoardSend(BOARD_CMD_SERVO_MOVE,
                             MoveParams(AdapterMove(servo_id, position, duration))),
                   PyNone)

A_set_torque_enable ==
    /\ Ready /\ client = "adapter"
    /\ \E enable \in BOOLEAN :
         WriteOnly("A_set_torque_enable", enable, AdapterTorque(servo_id, enable), PyNone)

(***************************************************************************)
(* HWI operations.                                                         *)
(***************************************************************************)
set_position ==
    /\ Ready /\ client = "hwi"
    /\ \E joint_name \in HwiNames, pos \in HwiPositions :
         WriteOnly("set_position", <<joint_name, pos>>,
                   SetPosition(joint_name, pos, joints_offsets), PyNone)

set_position_all ==
    /\ Ready /\ client = "hwi"
    /\ \E joints_positions \in JointMappings, move_duration_ms \in MoveDurations :
         WriteOnly("set_position_all", <<joints_positions, move_duration_ms>>,
                   SetPositionAll(joints_positions, move_duration_ms, joints_offsets),
                   PyNone)

turn_off ==
    /\ Ready /\ client = "hwi"
    /\ WriteOnly("turn_off", <<>>, TurnOff, PyNone)

\* an exception of the request or of the read is caught and gives None
get_present_positions ==
    /\ Ready /\ client = "hwi"
    /\ \E ignore \in IgnoreLists, arriving \in HwiArriving(MaxNoise - Len(rx)) :
         LET ids == IdsToRead(JointNames, ignore)
             s   == BoardSend(BOARD_CMD_MULT_SERVO_POS_READ, <<Len(ids)>> \o ids)
             buf == rx \o arriving
             r   == BoardReadResponse(buf)
         IN  /\ pc' = "returned"
             /\ op' = "get_present_positions"
             /\ arg' = ignore
             /\ written' = s.frames
             /\ ret' = IF s.exc = "none"
                       THEN GetPresentPositions(PositionsResult(r.ret), ignore, joints_offsets)
                       ELSE PyNone
             /\ stream' = IF s.exc = "none" THEN buf ELSE <<>>
             /\ rx' = IF s.exc = "none" THEN r.rest ELSE rx
             /\ timeout' = IF s.exc = "none" THEN TimeoutAfter(timeout, PyVal(1000), r) ELSE timeout
             /\ UNCHANGED <<client, servo_id, joints_offsets, last_position, last_time,
                          script_vars, pair_vars>>

(***************************************************************************)
(* read_data of the two speed estimators.  The servo ids of the model are  *)
(* bytes, so no request of a read_data call raises.                        *)
(***************************************************************************)
\* HiwonderServoWithSpeedEstimation.read_data, hiwonder.py lines 273-294
SE_read_data ==
    /\ Ready /\ client = "servo_est"
    /\ \E current_time \in Times,
          a1 \in EstPositionReplies(servo_id),
          a2 \in EstByteReplies(servo_id, CMD_SERVO_VIN_READ),
          a3 \in EstByteReplies(servo_id, CMD_SERVO_TEMP_READ) :
         LET r1 == ServoReadResponse(rx \o a1, 8)
             r2 == ServoReadResponse(r1.rest \o a2, 7)
             r3 == ServoReadResponse(r2.rest \o a3, 7)
             position    == PositionResult(r1.ret).val
             voltage     == ByteResult(r2.ret).val
             temperature == ByteResult(r3.ret).val
             sample      == SampleOf(position, current_time, last_position, last_time)
         IN  /\ pc' = "returned"
             /\ op' = "read_data"
             /\ arg' = current_time
             /\ written' = ServoSend(servo_id, CMD_SERVO_POS_READ, <<>>).frames
                           \o ServoSend(servo_id, CMD_SERVO_VIN_READ, <<>>).frames
                           \o ServoSend(servo_id, CMD_SERVO_TEMP_READ, <<>>).frames
             /\ ret' = PyVal([position |-> position,
                              speed |-> SpeedOf(position, current_time,
                                                last_position, last_time),
                              load |-> 0,
                              input_volts |-> voltage,
                              temp |-> temperature])
             /\ stream' = rx \o a1 \o a2 \o a3
             /\ rx' = r3.rest
             /\ last_position' = sample.last_position
             /\ last_time' = sample.last_time
             /\ UNCHANGED <<client, servo_id, joints_offsets,
                          timeout, script_vars, pair_vars>>

\* HiwonderBoardServoWithSpeedEstimation.read_data, hiwonder_board_adapter.py
\* lines 172-192; an exception of read_position or read_voltage leaves the
\* method before last_position and last_time are assigned
BE_read_data ==
    /\ Ready /\ client = "adapter_est"
    /\ \E current_time \in Times,
          a1 \in EstBoardPositionReplies(servo_id),
          a2 \in EstBoardVoltageReplies :
         LET s1 == BoardSend(BOARD_CMD_MULT_SERVO_POS_READ, <<1, servo_id>>)
             r1 == BoardReadResponse(rx \o a1)
             positions == PositionsResult(r1.ret)
             position  == AdapterPosition(positions, servo_id)
             s2 == BoardSend(BOARD_CMD_GET_BATTERY_VOLTAGE, <<>>)
             r2 == BoardReadResponse(r1.rest \o a2)
             battery == BatteryResult(r2.ret)
             voltage == AdapterVoltage(battery)
             sample  == BoardSampleOf(position, current_time, last_position, last_time)
             failed  == positions.kind = "raise" \/ battery.kind = "raise"
         IN  /\ pc' = "returned"
             /\ op' = "read_data"
             /\ arg' = current_time
             /\ written' = IF positions.kind = "raise"
                           THEN s1.frames ELSE s1.frames \o s2.frames
             /\ ret' = IF positions.kind = "raise" THEN positions
                       ELSE IF battery.kind = "raise" THEN battery
                       ELSE PyVal([position |-> position,
                                   speed |-> BoardSpeedOf(position, current_time,
                                                     last_position, last_time),
                                   load |-> 0,
                                   input_volts |-> voltage,
                                   temp |-> 0])
             /\ stream' = IF positions.kind = "raise" THEN rx \o a1 ELSE rx \o a1 \o a2
             /\ rx' = IF positions.kind = "raise" THEN r1.rest ELSE r2.rest
             /\ last_position' = IF failed THEN last_position ELSE sample.last_position
             /\ last_time' = IF failed THEN last_time ELSE sample.last_time
             /\ timeout' = TimeoutAfter(IF positions.kind = "raise" THEN timeout
                                          ELSE TimeoutAfter(timeout, PyVal(1000), r2),
                                          PyVal(1000), r1)
             /\ UNCHANGED <<client, servo_id, joints_offsets,
                          script_vars, pair_vars>>

(***************************************************************************)
(* The caller.                                                             *)
(***************************************************************************)
\* the caller takes the result; unread bytes stay in the input buffer
Return ==
    /\ pc = "returned"
    /\ pc' = "ready"
    /\ op' = "idle"
    /\ arg' = <<>>
    /\ written' = <<>>
    /\ ret' = PyNone
    /\ stream' = <<>>
    /\ UNCHANGED <<client, servo_id, rx, joints_offsets, last_position, last_time,
                 timeout, script_vars, pair_vars>>

\* close() and a new client on the port: the constructor resets the buffer
Reconnect ==
    /\ pc = "ready"
    /\ rx # <<>>
    /\ client' \in {"servo", "board"}
    /\ servo_id' \in ServoIds
    /\ rx' = <<>>
    /\ op' = "init"
    /\ timeout' = ConfiguredTimeout(client')
    /\ UNCHANGED <<pc, arg, written, ret, stream, joints_offsets, last_position, last_time,
                 script_vars, pair_vars>>

Next ==
    \/ B_send_command \/ B_read_response
    \/ move_servos \/ unload_servos \/ get_battery_voltage \/ read_servo_positions
    \/ S_send_command \/ S_read_response
    \/ set_torque_enable \/ set_goal_position
    \/ read_position \/ read_voltage \/ read_temperature
    \/ Return \/ Reconnect

Spec == Init /\ [][Next]_vars

(***************************************************************************)
(* The clients that take angles in radians: HiwonderServo,                 *)
(* HiwonderBoardServo and HWI with its offsets configuration.  HWI has no  *)
(* servo id of its own and the two servo clients have no offsets.          *)
(***************************************************************************)
JointInit ==
    /\ client \in {"servo", "adapter", "hwi"}
    /\ servo_id \in (IF client = "hwi" THEN {1} ELSE ServoIds)
    /\ pc = "ready"
    /\ rx = <<>>
    /\ op = "init"
    /\ arg = <<>>
    /\ written = <<>>
    /\ ret = PyNone
    /\ stream = <<>>
    /\ joints_offsets \in (IF client = "hwi" THEN OffsetTables ELSE {NoOffsets})
    /\ last_position = PyNone
    /\ last_time = PyNone
    /\ timeout = ConfiguredTimeout(client)
    /\ NoScript
    /\ NoPair

JointNext ==
    \/ set_goal_position \/ A_set_goal_position \/ A_set_torque_enable
    \/ set_position \/ set_position_all \/ get_present_positions
    \/ turn_off
    \/ Return

JointSpec == JointInit /\ [][JointNext]_vars

(***************************************************************************)
(* The speed estimators.  Construction leaves last_position and last_time  *)
(* None (hiwonder.py lines 263-264, hiwonder_board_adapter.py lines        *)
(* 162-163).                                                               *)
(***************************************************************************)
EstInit ==
    /\ client \in {"servo_est", "adapter_est"}
    /\ servo_id \in ServoIds
    /\ pc = "ready"
    /\ rx = <<>>
    /\ op = "init"
    /\ arg = <<>>
    /\ written = <<>>
    /\ ret = PyNone
    /\ stream = <<>>
    /\ joints_offsets = NoOffsets
    /\ last_position = PyNone
    /\ last_time = PyNone
    /\ timeout = ConfiguredTimeout(client)
    /\ NoScript
    /\ NoPair

\* close() and a new estimator on the port
EstReconnect ==
    /\ pc = "ready"
    /\ op # "init"
    /\ client' \in {"servo_est", "adapter_est"}
    /\ servo_id' \in ServoIds
    /\ rx' = <<>>
    /\ op' = "init"
    /\ last_position' = PyNone
    /\ last_time' = PyNone
    /\ timeout' = ConfiguredTimeout(client')
    /\ UNCHANGED <<pc, arg, written, ret, stream, joints_offsets,
                 script_vars, pair_vars>>

EstNext == SE_read_data \/ BE_read_data \/ Return \/ EstReconnect

EstSpec == EstInit /\ [][EstNext]_vars

(***************************************************************************)
(* The two estimators side by side: each sample (timestamp, position) is   *)
(* handed to the statements of both read_data methods; last_position and   *)
(* last_time are the state of HiwonderServoWithSpeedEstimation,            *)
(* board_last_position and board_last_time the state of                    *)
(* HiwonderBoardServoWithSpeedEstimation.                                  *)
(***************************************************************************)
\* positions of the samples, in thousandths of a turn
SamplePositions == {-500, -6, 0, 5, 110, 500}

PairInit ==
    /\ client = "pair"
    /\ servo_id = 1
    /\ pc = "ready"
    /\ rx = <<>>
    /\ op = "init"
    /\ arg = <<>>
    /\ written = <<>>
    /\ ret = PyNone
    /\ stream = <<>>
    /\ joints_offsets = NoOffsets
    /\ last_position = PyNone
    /\ last_time = PyNone
    /\ timeout = ConfiguredTimeout(client)
    /\ NoScript
    /\ NoPair

feed ==
    /\ pc = "ready" /\ client = "pair"
    /\ \E current_time \in Times, position \in SamplePositions :
         LET sample       == SampleOf(position, current_time, last_position, last_time)
             board_sample == BoardSampleOf(position, current_time,
                                          board_last_position, board_last_time)
         IN  /\ pc' = "returned"
             /\ op' = "feed"
             /\ arg' = <<current_time, position>>
             /\ ret' = PyVal([servo |-> SpeedOf(position, current_time,
                                                last_position, last_time),
                              board |-> BoardSpeedOf(position, current_time,
                                                     board_last_position,
                                                     board_last_time)])
             /\ last_position' = sample.last_position
             /\ last_time' = sample.last_time
             /\ board_last_position' = board_sample.last_position
             /\ board_last_time' = board_sample.last_time
             /\ UNCHANGED <<client, servo_id, rx, written, stream, joints_offsets,
                            timeout, script_vars>>

PairNext == feed \/ Return

PairSpec == PairInit /\ [][PairNext]_vars

(***************************************************************************)
(* The recording scripts record.py (client "record", a                     *)
(* HiwonderServoWithSpeedEstimation) and record_board.py (client           *)
(* "record_board", a HiwonderBoardServoWithSpeedEstimation).  Each         *)
(* iteration of a loop of the script is one action; pc is the loop the     *)
(* script is in, "closed" after servo.close() and "crashed" after an       *)
(* exception that nothing catches.  written holds the frames of the last   *)
(* iteration, arg the value of trajectory(t) it used.  Angles of the       *)
(* script are whole milliradians, the clock counts steps of which the      *)
(* initialization phase of 1.0 s lasts InitPhase; an iteration of a loop   *)
(* takes one step of the clock.                                            *)
(***************************************************************************)
InitPhase == 2

\* return_dt * 1.0 = 0.01 rad (record.py lines 102-103)
max_variation == 10

\* values of trajectory(t): (goal_position, torque_enable)
TrajectoryOutputs == {<<0, FALSE>>, <<300, TRUE>>}

\* what reaches the input buffer during the reads of one read_data call
RecPositionReplies(id) ==
    {<<>>}
    \cup {ServoPacket(id, CMD_SERVO_POS_READ, p) : p \in {<<249, 1>>, <<235, 1>>}}
    \cup {<<0>> \o ServoPacket(id, CMD_SERVO_POS_READ, <<249, 1>>)}

RecVoltageReplies(id) == {ServoPacket(id, CMD_SERVO_VIN_READ, <<74>>)}

RecTemperatureReplies(id) == {ServoPacket(id, CMD_SERVO_TEMP_READ, <<30>>)}

RecBoardPositionReplies(id) ==
    {<<>>, <<0>>}
    \cup {BoardPacket(BOARD_CMD_MULT_SERVO_POS_READ, p) :
            p \in {<<1, id, 249, 1>>, <<1, id, 235, 1>>}}

RecBoardVoltageReplies ==
    {BoardPacket(BOARD_CMD_GET_BATTERY_VOLTAGE, <<184, 27>>)}

\* a position as read_position returns it, in milliradians
PositionMrad(x) == PyInt(x * TwoPiNum, TwoPiDen)

\* the frames of servo.set_torque_enable(enable)
ScriptTorque(enable) ==
    IF client = "record"
    THEN ServoSend(servo_id, CMD_SERVO_LOAD_OR_UNLOAD_WRITE,
                   <<IF enable THEN 1 ELSE 0>>).frames
    ELSE AdapterTorque(servo_id, enable).frames

\* the frames of servo.set_goal_position(position, duration)
ScriptGoal(position, duration) ==
    IF client = "record"
    THEN ServoSend(servo_id, CMD_SERVO_MOVE_TIME_WRITE,
                   GoalParams(position, duration)).frames
    ELSE BoardSend(BOARD_CMD_SERVO_MOVE,
                   MoveParams(AdapterMove(servo_id, position, duration))).frames

\* variant: the torque command repeated in every tick
TickTorqueEveryTick(new_torque_enable, old_torque_enable) ==
    IF client = "record" \/ ~new_torque_enable
    THEN ScriptTorque(new_torque_enable) ELSE <<>>

\* the frames of "update torque enable if changed": record.py lines 73-75,
\* record_board.py lines 87-93 (which sends nothing when the flag turns true)
TickTorque(new_torque_enable, old_torque_enable) ==
    IF new_torque_enable # old_torque_enable
    THEN IF client = "record" THEN ScriptTorque(new_torque_enable)
         ELSE IF new_torque_enable THEN <<>> ELSE ScriptTorque(FALSE)
    ELSE <<>>

\* the frames of "update goal position if torque is enabled": record.py
\* lines 79-80, record_board.py lines 97-98
TickGoal(position, enabled) ==
    IF enabled
    THEN ScriptGoal(position, IF client = "record" THEN 0 ELSE 20)
    ELSE <<>>

\* variant: steps of twice max_variation
ReturnGoalTwice(goal) ==
    IF goal > 0
    THEN Max(0, goal - 2 * max_variation)
    ELSE Min(0, goal + 2 * max_variation)

\* the next goal of the return-to-zero loop: record.py lines 106-109,
\* record_board.py lines 124-127
ReturnGoal(goal) ==
    IF goal > 0
    THEN Max(0, goal - max_variation)
    ELSE Min(0, goal + max_variation)

\* the bytes that the reads of one read_data call find in the input buffer:
\* the three reads of the serial servo, and the reads of the board adapter,
\* where the battery is not asked once read_position has raised
ServoReadStream(buf, a1, a2, a3) == buf \o a1 \o a2 \o a3

BoardReadStream(buf, a1, a2) ==
    IF PositionsResult(BoardReadResponse(buf \o a1).ret).kind = "raise"
    THEN buf \o a1
    ELSE buf \o a1 \o a2

\* servo.read_data() of HiwonderServoWithSpeedEstimation (hiwonder.py lines
\* 273-294) on the buffer buf with a1, a2, a3 arriving during its three reads
ServoReadData(buf, a1, a2, a3, current_time, lp, lt) ==
    LET r1 == ServoReadResponse(buf \o a1, 8)
        r2 == ServoReadResponse(r1.rest \o a2, 7)
        r3 == ServoReadResponse(r2.rest \o a3, 7)
        position == PositionResult(r1.ret).val
        sample   == SampleOf(position, current_time, lp, lt)
    IN  [frames |-> ServoSend(servo_id, CMD_SERVO_POS_READ, <<>>).frames
                    \o ServoSend(servo_id, CMD_SERVO_VIN_READ, <<>>).frames
                    \o ServoSend(servo_id, CMD_SERVO_TEMP_READ, <<>>).frames,
         ret |-> PyVal([position |-> position,
                        speed |-> SpeedOf(position, current_time, lp, lt),
                        load |-> 0,
                        input_volts |-> ByteResult(r2.ret).val,
                        temp |-> ByteResult(r3.ret).val]),
         rest |-> r3.rest,
         last_position |-> sample.last_position,
         last_time |-> sample.last_time]

\* servo.read_data() of HiwonderBoardServoWithSpeedEstimation
\* (hiwonder_board_adapter.py lines 172-192); an exception of read_position
\* or of read_voltage leaves the method at once
BoardReadData(buf, a1, a2, current_time, lp, lt) ==
    LET s1 == BoardSend(BOARD_CMD_MULT_SERVO_POS_READ, <<1, servo_id>>)
        r1 == BoardReadResponse(buf \o a1)
        positions == PositionsResult(r1.ret)
        position  == AdapterPosition(positions, servo_id)
        s2 == BoardSend(BOARD_CMD_GET_BATTERY_VOLTAGE, <<>>)
        r2 == BoardReadResponse(r1.rest \o a2)
        battery == BatteryResult(r2.ret)
        sample  == BoardSampleOf(position, current_time, lp, lt)
        failed  == positions.kind = "raise" \/ battery.kind = "raise"
    IN  [frames |-> IF positions.kind = "raise"
                    THEN s1.frames ELSE s1.frames \o s2.frames,
         ret |-> IF positions.kind = "raise" THEN positions
                 ELSE IF battery.kind = "raise" THEN battery
                 ELSE PyVal([position |-> position,
                             speed |-> BoardSpeedOf(position, current_time, lp, lt),
                             load |-> 0,
                             input_volts |-> AdapterVoltage(battery),
                             temp |-> 0]),
         rest |-> IF positions.kind = "raise" THEN r1.rest ELSE r2.rest,
         last_position |-> IF failed THEN lp ELSE sample.last_position,
         last_time |-> IF failed THEN lt ELSE sample.last_time]

\* the script is started: the servo object is constructed, torque_enable =
\* False, start = time.time() (record.py lines 33-43, record_board.py lines
\* 34-50); arg is trajectory(0)
RecordInit ==
    /\ client \in {"record", "record_board"}
    /\ servo_id = 1
    /\ pc = "initializing"
    /\ rx = <<>>
    /\ op = "init"
    /\ arg \in TrajectoryOutputs
    /\ written = <<>>
    /\ ret = PyNone
    /\ stream = <<>>
    /\ joints_offsets = NoOffsets
    /\ last_position = PyNone
    /\ last_time = PyNone
    /\ timeout = ConfiguredTimeout(client)
    /\ torque_enable = FALSE
    /\ goal_position = 0
    /\ entries = <<>>
    /\ now = 0
    /\ start = now
    /\ return_calls = 0
    /\ NoPair

\* one iteration of the initialization loop: record.py lines 44-49,
\* record_board.py lines 51-57
initialize ==
    /\ pc = "initializing"
    /\ now - start < InitPhase
    /\ op' = "initialize"
    /\ goal_position' = arg[1]
    /\ torque_enable' = arg[2]
    /\ written' = IF client = "record"
                  THEN (IF arg[2] THEN ScriptGoal(arg[1], 0) ELSE <<>>)
                       \o ScriptTorque(arg[2])
                  ELSE IF arg[2] THEN ScriptGoal(arg[1], 50) ELSE ScriptTorque(FALSE)
    /\ now' = now + 1
    /\ UNCHANGED <<client, servo_id, pc, rx, arg, ret, stream, joints_offsets,
                   last_position, last_time, timeout, entries, start, return_calls,
                   pair_vars>>

\* the initialization loop is left: record.py lines 51-63, record_board.py
\* lines 59-77 (one more set_goal_position when torque is on)
start_recording ==
    /\ pc = "initializing"
    /\ now - start >= InitPhase
    /\ pc' = "recording"
    /\ op' = "start_recording"
    /\ written' = IF client = "record_board" /\ torque_enable
                  THEN ScriptGoal(arg[1], 50) ELSE <<>>
    /\ start' = now
    /\ entries' = <<>>
    /\ UNCHANGED <<client, servo_id, rx, arg, ret, stream, joints_offsets,
                   last_position, last_time, timeout, torque_enable, goal_position,
                   now, return_calls, pair_vars>>

\* one iteration of the main loop: record.py lines 66-95, record_board.py
\* lines 80-113.  An exception of read_data ends the script.
tick ==
    /\ pc = "recording"
    /\ now - start < MaxDuration
    /\ \E out \in TrajectoryOutputs,
          a1 \in (IF client = "record" THEN RecPositionReplies(servo_id)
                  ELSE RecBoardPositionReplies(servo_id)),
          a2 \in (IF client = "record" THEN RecVoltageReplies(servo_id)
                  ELSE RecBoardVoltageReplies),
          a3 \in RecTemperatureReplies(servo_id) :
         /\ op' = "tick"
         /\ arg' = out
         /\ goal_position' = out[1]
         /\ torque_enable' = out[2]
         /\ stream' = IF client = "record"
                      THEN ServoReadStream(rx, a1, a2, a3)
                      ELSE BoardReadStream(rx, a1, a2)
         /\ \E entry \in {IF client = "record"
                           THEN ServoReadData(rx, a1, a2, a3, now,
                                              last_position, last_time)
                           ELSE BoardReadData(rx, a1, a2, now,
                                              last_position, last_time)} :
              LET raised == entry.ret.kind = "raise"
              IN  /\ written' = TickTorque(out[2], torque_enable)
                                \o TickGoal(out[1], out[2]) \o entry.frames
                  /\ rx' = entry.rest
                  /\ last_position' = entry.last_position
                  /\ last_time' = entry.last_time
                  /\ ret' = entry.ret
                  /\ pc' = IF raised THEN "crashed" ELSE "recording"
                  /\ entries' = IF raised THEN entries
                                ELSE Append(entries,
                                            [position |-> entry.ret.val.position,
                                             goal_position |-> out[1],
                                             torque_enable |-> out[2]])
                  /\ now' = IF raised THEN now ELSE now + 1
         /\ UNCHANGED <<client, servo_id, joints_offsets, timeout, start,
                        return_calls, pair_vars>>

\* the main loop is left: record.py lines 97-103, record_board.py lines
\* 115-121; data["entries"][-1] of an empty list raises IndexError
end_recording ==
    /\ pc = "recording"
    /\ now - start >= MaxDuration
    /\ op' = "end_recording"
    /\ pc' = IF entries = <<>> THEN "crashed" ELSE "returning"
    /\ ret' = IF entries = <<>> THEN PyRaise("IndexError") ELSE PyNone
    /\ goal_position' = IF entries = <<>> THEN goal_position
                        ELSE PositionMrad(entries[Len(entries)].position)
    /\ written' = <<>>
    /\ stream' = <<>>
    /\ return_calls' = 0
    /\ UNCHANGED <<client, servo_id, rx, arg, joints_offsets, last_position, last_time,
                   timeout, torque_enable, entries, now, start, pair_vars>>

\* one iteration of the return-to-zero loop: record.py lines 105-111,
\* record_board.py lines 123-129
return_to_zero ==
    /\ pc = "returning"
    /\ Abs(goal_position) > max_variation
    /\ LET goal == ReturnGoal(goal_position)
       IN  /\ goal_position' = goal
           /\ written' = ScriptGoal(goal, IF client = "record" THEN 0 ELSE 50)
    /\ op' = "return_to_zero"
    /\ return_calls' = return_calls + 1
    /\ UNCHANGED <<client, servo_id, pc, rx, arg, ret, stream, joints_offsets,
                   last_position, last_time, timeout, torque_enable, entries, now,
                   start, pair_vars>>

\* record.py lines 113-115, record_board.py lines 131-133:
\* servo.set_torque_enable(False); servo.close()
shutdown ==
    /\ pc = "returning"
    /\ Abs(goal_position) <= max_variation
    /\ pc' = "closed"
    /\ op' = "shutdown"
    /\ written' = ScriptTorque(FALSE)
    /\ UNCHANGED <<client, servo_id, rx, arg, ret, stream, joints_offsets,
                   last_position, last_time, timeout, torque_enable, goal_position,
                   entries, now, start, return_calls, pair_vars>>

RecordNext ==
    \/ initialize \/ start_recording \/ tick \/ end_recording
    \/ return_to_zero \/ shutdown

RecordSpec == RecordInit /\ [][RecordNext]_vars

\* the script runs on its own thread and every call it makes returns or
\* raises within its timeout: a step that is possible is taken
RecordLiveSpec ==
    /\ RecordSpec
    /\ WF_vars(initialize) /\ WF_vars(start_recording)
    /\ WF_vars(tick) /\ WF_vars(end_recording)
    /\ WF_vars(return_to_zero) /\ WF_vars(shutdown)

(***************************************************************************)
(* Properties.                                                             *)
(***************************************************************************)
\* sum of the bytes s[a..b]
RECURSIVE SumRange(_, _, _)
SumRange(s, a, b) ==
    IF a > b THEN 0
    ELSE IF a = b THEN s[a]
    ELSE LET h == (a + b) \div 2
         IN  SumRange(s, a, h) + SumRange(s, h + 1, b)

\* s from index a on
From(s, a) == SubSeq(s, a, Len(s))

\* f is a single-servo frame whose length byte and checksum are right
IsServoFrame(f) ==
    /\ Len(f) >= 6
    /\ f[1] = 85 /\ f[2] = 85
    /\ f[4] = Len(f) - 3
    /\ SumRange(f, 3, Len(f)) % 256 = 255

\* f is a board frame whose length byte is right
IsBoardFrame(f) ==
    /\ Len(f) >= 4
    /\ f[1] = 85 /\ f[2] = 85
    /\ f[3] = Len(f) - 2

\* the first k bytes of s hold no 0x55
NoHeaderByte(s, k) == \A i \in 1..k : s[i] # 85

\* no two adjacent bytes of s[1..k] are 0x55 0x55
NoHeaderPair(s, k) == \A i \in 1..(k - 1) : ~(s[i] = 85 /\ s[i + 1] = 85)

ServoReads == {"read_position", "read_voltage", "read_temperature"}

BoardReads == {"B_read_response", "get_battery_voltage", "read_servo_positions"}

\* the fixed expected length of each single-servo read
ExpectedLength(o) == IF o = "read_position" THEN 8 ELSE 7

(***************************************************************************)
(* C1: for a batch of N (servo_id, position, time_ms) entries move_servos  *)
(* writes exactly one frame 0x55 0x55, length 2 + 1 + 5N, command 0x03,    *)
(* count N, then for each entry in the caller's order id, position low and *)
(* high byte, time low and high byte.                                      *)
(***************************************************************************)
C1_MoveFrame ==
    (op = "move_servos" /\ 2 + 1 + 5 * Len(arg) <= 255) =>
        /\ ret = PyVal(TRUE)
        /\ Len(written) = 1
        /\ LET f == written[1]
               N == Len(arg)
           IN  /\ Len(f) = 5 + 5 * N
               /\ f[1] = 85 /\ f[2] = 85
               /\ f[3] = 2 + 1 + 5 * N
               /\ f[4] = 3
               /\ f[5] = N
               /\ \A k \in 1..N :
                    LET b == 5 + 5 * (k - 1)
                    IN  /\ f[b + 1] = arg[k][1]
                        /\ IsByte(f[b + 2]) /\ IsByte(f[b + 3])
                        /\ f[b + 2] + 256 * f[b + 3] = arg[k][2]
                        /\ IsByte(f[b + 4]) /\ IsByte(f[b + 5])
                        /\ f[b + 4] + 256 * f[b + 5] = arg[k][3] % 65536

C1_Witness ==
    /\ op = "move_servos"
    /\ Len(arg) = 2
    /\ arg[1] = <<2, 1000, 20>>
    /\ arg[2] = <<1, 0, 1000>>
    /\ Len(written) = 1

(***************************************************************************)
(* C2: every frame the single-servo client writes is 0x55 0x55, servo_id,  *)
(* length = len(params) + 3, command, params, checksum, and the bytes      *)
(* after the header, checksum included, sum to 0xFF modulo 256.            *)
(***************************************************************************)
C2_ServoFrame ==
    client = "servo" =>
        \A i \in 1..Len(written) :
            LET f == written[i]
                n == Len(f) - 6
            IN  /\ n >= 0
                /\ f[1] = 85 /\ f[2] = 85
                /\ f[3] = servo_id
                /\ f[4] = n + 3
                /\ f[Len(f)] = 255 - (SumRange(f, 3, Len(f) - 1) % 256)
                /\ SumRange(f, 3, Len(f)) % 256 = 255
                /\ (op = "S_send_command" =>
                        f[5] = arg.command /\ SubSeq(f, 6, Len(f) - 1) = arg.params)

C2_Witness ==
    /\ client = "servo"
    /\ op = "set_goal_position"
    /\ Len(written) = 1
    /\ SumRange(written[1], 3, Len(written[1]) - 1) > 255

(***************************************************************************)
(* C3: a received frame is accepted only if its checksum matches: a frame  *)
(* that _read_response returns has a matching checksum, and a read_*       *)
(* operation whose reply is a whole frame with a wrong checksum returns    *)
(* its failure value.  (Board frames carry no checksum byte at all.)       *)
(***************************************************************************)
\* s is a whole single-servo frame, header and length byte right, whose
\* checksum does not match its bytes
IsCorruptFrame(s) ==
    /\ Len(s) >= 7
    /\ s[1] = 85 /\ s[2] = 85
    /\ s[4] = Len(s) - 3
    /\ SumRange(s, 3, Len(s)) % 256 # 255

C3_ChecksumVerified ==
    /\ (op = "S_read_response" /\ arg = Len(stream) /\ IsCorruptFrame(stream)) =>
            ret = PyNone
    /\ (op \in ServoReads /\ Len(stream) = ExpectedLength(op) /\ IsCorruptFrame(stream)) =>
            ret = PyVal(0)

(***************************************************************************)
(* C4: round trip.  The bytes _send_command writes for (command, params),  *)
(* fed to the matching _read_response (single-servo: expected_length = the *)
(* number of bytes of the frame), come back as a result that holds the     *)
(* command byte and the parameter bytes unchanged.                         *)
(***************************************************************************)
C4_RoundTrip ==
    /\ (op = "B_read_response" /\ Len(stream) >= 4
          /\ stream = BoardPacket(stream[4], From(stream, 5))) =>
            /\ ret.kind = "value"
            /\ ret.val[2] = stream[4]
            /\ From(ret.val, 3) = From(stream, 5)
    /\ (op = "S_read_response" /\ Len(stream) >= 6 /\ arg = Len(stream)
          /\ stream = ServoPacket(servo_id, stream[5], SubSeq(stream, 6, Len(stream) - 1))) =>
            /\ ret.kind = "value"
            /\ ret.val[5] = stream[5]
            /\ SubSeq(ret.val, 6, Len(ret.val) - 1) = SubSeq(stream, 6, Len(stream) - 1)

C4_Witness ==
    /\ op = "B_read_response"
    /\ stream = BoardPacket(85, <<85, 244>>)
    /\ ret.kind = "value"

(***************************************************************************)
(* C5: single-servo resynchronisation.  A run of spurious bytes of any     *)
(* length that holds no 0x55 0x55, followed by a complete response frame,  *)
(* makes _read_response return that frame from its header on.              *)
(***************************************************************************)
C5_Resync ==
    op = "S_read_response" =>
        \A k \in 0..Len(stream) :
            (/\ NoHeaderPair(stream, k)
             /\ (k > 0 => stream[k] # 85)
             /\ IsServoFrame(From(stream, k + 1))
             /\ arg = Len(stream) - k)
            => ret = PyVal(From(stream, k + 1))

(***************************************************************************)
(* C6: board frame scan.  Bytes other than 0x55 in front of a well-formed  *)
(* frame are discarded and _read_response still returns the frame.         *)
(***************************************************************************)
C6_NoiseDiscarded ==
    op = "B_read_response" =>
        \A k \in 0..Len(stream) :
            (NoHeaderByte(stream, k) /\ IsBoardFrame(From(stream, k + 1)))
            => ret = PyVal(From(stream, k + 3))

(***************************************************************************)
(* C7: a read timeout in any state of the board frame scan makes the read  *)
(* return None; no exception leaves _read_response, get_battery_voltage or *)
(* read_servo_positions.                                                   *)
(***************************************************************************)
\* s ends before the frame it starts is complete: the read times out
\* waiting for the first 0x55, the second 0x55, length and command, or
\* the payload
EndsInTimeout(s) ==
    \/ s = <<>>
    \/ s = <<85>>
    \/ s = <<85, 85>>
    \/ Len(s) = 3 /\ s[1] = 85 /\ s[2] = 85
    \/ Len(s) >= 4 /\ s[1] = 85 /\ s[2] = 85 /\ Len(s) - 4 < s[3] - 2

C7_TimeoutIsNone ==
    (op \in BoardReads /\ EndsInTimeout(stream)) => ret = PyNone

(***************************************************************************)
(* C8: get_battery_voltage returns None whenever no complete frame is      *)
(* read, the command byte is not 0x0F or the declared length is not 4, and *)
(* (voltage_lo | voltage_hi << 8) / 1000 for a well-formed response, so a  *)
(* reading of 0 mV gives 0.0 and not None.                                 *)
(***************************************************************************)
\* after k bytes that are not 0x55, s holds a whole battery response
BatteryResponseAt(s, k) ==
    /\ NoHeaderByte(s, k)
    /\ Len(s) >= k + 6
    /\ s[k + 1] = 85 /\ s[k + 2] = 85
    /\ s[k + 3] = 4 /\ s[k + 4] = 15

C8_BatteryOrNone ==
    op = "get_battery_voltage" =>
        IF \E k \in 0..Len(stream) : BatteryResponseAt(stream, k)
        THEN \A k \in 0..Len(stream) :
                BatteryResponseAt(stream, k) =>
                    ret = PyVal(stream[k + 5] + 256 * stream[k + 6])
        ELSE ret = PyNone

(***************************************************************************)
(* C9: read_servo_positions, given a response whose count byte announces   *)
(* more triples than are fully present, returns exactly the fully present  *)
(* leading triples in order as (id, pos_lo | pos_hi << 8) and drops the    *)
(* truncated trailing triple.                                              *)
(***************************************************************************)
\* s is header, length, command 0x15, count and then fewer bytes than count
\* triples take, ending inside a triple
TruncatedMidTriple(s) ==
    /\ Len(s) >= 5
    /\ s[1] = 85 /\ s[2] = 85
    /\ s[3] >= 3
    /\ s[4] = BOARD_CMD_MULT_SERVO_POS_READ
    /\ Len(s) - 5 < 3 * s[5]
    /\ (Len(s) - 5) % 3 # 0

\* the triples fully present in s after the count byte
LeadingTriples(s) ==
    [i \in 1..((Len(s) - 5) \div 3) |->
        <<s[3 + 3 * i], s[4 + 3 * i] + 256 * s[5 + 3 * i]>>]

\* the claim as stated: whatever the length byte declares
C9_TruncatedAsStated ==
    (op = "read_servo_positions" /\ TruncatedMidTriple(stream)) =>
        ret = PyVal(LeadingTriples(stream))

\* amended: the leading triples when the length byte declares the bytes
\* received, None when it declares more than were received
C9_Truncated ==
    (op = "read_servo_positions" /\ TruncatedMidTriple(stream)) =>
        /\ stream[3] = Len(stream) - 2 => ret = PyVal(LeadingTriples(stream))
        /\ stream[3] > Len(stream) - 2 => ret = PyNone

C9_Witness ==
    /\ op = "read_servo_positions"
    /\ TruncatedMidTriple(stream)
    /\ stream[3] = Len(stream) - 2
    /\ stream[5] = 2
    /\ ret = PyVal(<< <<2, 500>> >>)

(***************************************************************************)
(* C10: on timeout (no 0x55 0x55 header arrives) or short read (fewer      *)
(* bytes than the expected length) read_position returns 0.0, read_voltage *)
(* 0.0 and read_temperature 0; none of them raises.                        *)
(***************************************************************************)
C10_Defaults ==
    op \in ServoReads =>
        /\ ret.kind = "value"
        /\ (NoHeaderPair(stream, Len(stream)) \/ Len(stream) < ExpectedLength(op))
              => ret = PyVal(0)

C10_Witness ==
    /\ op = "read_position"
    /\ Len(stream) = 7
    /\ SubSeq(stream, 1, 2) = <<85, 85>>
    /\ ret = PyVal(0)

(***************************************************************************)
(* Helpers of the properties of the radians clients.                       *)
(***************************************************************************)

\* the position field of the single-servo move frame f
ServoFramePosition(f) == Word(f[6], f[7])

\* the servo id, position and time fields of entry k of the board move frame f
EntryId(f, k) == f[5 * k + 1]

EntryPosition(f, k) == Word(f[5 * k + 2], f[5 * k + 3])

EntryTime(f, k) == Word(f[5 * k + 4], f[5 * k + 5])

\* f is a board move frame of n entries
IsMoveFrame(f, n) ==
    /\ Len(f) = 5 + 5 * n
    /\ IsByteList(f)
    /\ f[1] = 85 /\ f[2] = 85
    /\ f[3] = 3 + 5 * n
    /\ f[4] = BOARD_CMD_SERVO_MOVE
    /\ f[5] = n

\* a call of set_position with a joint of the robot
KnownSetPosition == op = "set_position" /\ arg[1] \in KnownJoints

\* the angle set_position converts: position plus offset, in 1e-5 rad
OffsetPosition == arg[2] + joints_offsets[arg[1]]

\* half of the 240 degree range, 2.0944 rad, in mrad and in 1e-5 rad
\* (rounded inward)
InServoRange(mrad) == mrad \in (-2094)..2094

InJointRange(rad5) == rad5 \in (-209439)..209439

(***************************************************************************)
(* C11: the position field of every move frame written by                  *)
(* HiwonderServo.set_goal_position, HiwonderBoardServo.set_goal_position,  *)
(* HWI.set_position and HWI.set_position_all lies in 0..1000 for any       *)
(* radians input and any joint offset; a request out of range raises no    *)
(* error, it is clamped.                                                   *)
(***************************************************************************)
C11_PositionInRange ==
    /\ op = "set_goal_position" =>
         /\ ret = PyNone
         /\ Len(written) = 1
         /\ ServoFramePosition(written[1]) \in 0..1000
    /\ (op = "A_set_goal_position" \/ KnownSetPosition) =>
         /\ ret = PyNone
         /\ Len(written) = 1
         /\ IsMoveFrame(written[1], 1)
         /\ EntryPosition(written[1], 1) \in 0..1000
    /\ op = "set_position_all" =>
         /\ ret = PyNone
         /\ \A i \in 1..Len(written) :
              /\ IsMoveFrame(written[i], written[i][5])
              /\ \A k \in 1..written[i][5] : EntryPosition(written[i], k) \in 0..1000

C11_Witness ==
    /\ op = "set_position"
    /\ arg = <<"right_ankle", 250000>>
    /\ joints_offsets = TrimOffsets
    /\ ret = PyNone
    /\ Len(written) = 1
    /\ EntryPosition(written[1], 1) = 1000

(***************************************************************************)
(* C12: every radians-to-units conversion maps every input beyond the      *)
(* mechanical range, below -2.094 rad or above +2.094 rad, to exactly 0 or *)
(* exactly 1000 units.  (The thresholds taken are 2.095 rad for the        *)
(* single-servo forms and 2.0944 rad for HWI.)                             *)
(***************************************************************************)
C12_BeyondRangeSaturates ==
    /\ (op = "set_goal_position" /\ Len(written) = 1) =>
         /\ arg[1] < -2095 => ServoFramePosition(written[1]) = 0
         /\ arg[1] > 2095 => ServoFramePosition(written[1]) = 1000
    /\ (op = "A_set_goal_position" /\ Len(written) = 1) =>
         /\ arg[1] < -2095 => EntryPosition(written[1], 1) = 0
         /\ arg[1] > 2095 => EntryPosition(written[1], 1) = 1000
    /\ (KnownSetPosition /\ Len(written) = 1) =>
         /\ OffsetPosition < -209440 => EntryPosition(written[1], 1) = 0
         /\ OffsetPosition > 209440 => EntryPosition(written[1], 1) = 1000

(***************************************************************************)
(* C13: for an angle in the mechanical range, converting it to units and   *)
(* the units back to radians within one component gives an angle that      *)
(* differs from it by at most one quantization step, 1/1000 of the span    *)
(* of that component (2 pi for HiwonderServo and HiwonderBoardServo,       *)
(* 4.18879 rad for HWI).                                                   *)
(***************************************************************************)
\* read_position of HiwonderServo on a reply that reports units
ServoReadBack(units) ==
    PositionResult(PyVal(ServoPacket(servo_id, CMD_SERVO_POS_READ,
                                     <<LowByte(units), HighByte(units)>>))).val

\* read_position of HiwonderBoardServo on a report of units for its servo
AdapterReadBack(units) == AdapterPosition(PyVal(<<(<<servo_id, units>>)>>), servo_id)

C13_RoundTrip ==
    /\ (op = "set_goal_position" /\ InServoRange(arg[1])) =>
         Abs(ServoReadBack(ServoFramePosition(written[1])) * TwoPiNum - arg[1] * TwoPiDen)
             <= TwoPiNum
    /\ (op = "A_set_goal_position" /\ InServoRange(arg[1])) =>
         Abs(AdapterReadBack(EntryPosition(written[1], 1)) * TwoPiNum - arg[1] * TwoPiDen)
             <= TwoPiNum
    /\ (KnownSetPosition /\ InJointRange(OffsetPosition)) =>
         Abs(servo_units_to_radians(EntryPosition(written[1], 1)) - OffsetPosition * 1000)
             <= SpanE5

C13_Witness ==
    /\ op = "set_position"
    /\ arg = <<"left_knee", 837>>
    /\ joints_offsets = NoOffsets
    /\ EntryPosition(written[1], 1) = 501
    /\ servo_units_to_radians(501) = 418879

(***************************************************************************)
(* Helpers of the joint write/read round trip.                             *)
(***************************************************************************)
\* the (servo id, units) pairs the board reported in a get_present_positions
\* call that returned an array
ReportedPairs == PositionsResult(BoardReadResponse(stream).ret).val

\* index of the joint JointNames[i] in the array returned with this ignore list
RECURSIVE ResultIndex(_, _)
ResultIndex(i, ignore) ==
    IF i = 0 THEN 0
    ELSE ResultIndex(i - 1, ignore) + (IF InSeq(JointNames[i], ignore) THEN 0 ELSE 1)

\* the joints whose servo is reported and whose value is in the array
ReportedJoints ==
    {i \in 1..Len(JointNames) :
        /\ ~InSeq(JointNames[i], arg)
        /\ HasUnits(ReportedPairs, JointIds[i])}

\* angles x, in 1e-5 rad, for which set_position(joint, x) transmits units:
\* every such x next to the angle of units, and three angles far from it
Transmitting(joint_name, units) ==
    LET o    == joints_offsets[joint_name]
        near == (servo_units_to_radians(units) \div 1000) - o
    IN  {x \in ((near - 2)..(near + 421)) \cup {-200000, 837, 200000} :
            radians_to_servo_units(x + o) = units}

\* the value returned for joint i, in 1e-8 rad, against x in 1e-5 rad
ReturnedError(i, x) == Abs(ret.val[ResultIndex(i, arg)] * 100000 - x * 1000)

C15_FormsAgree ==
    /\ (op = "set_goal_position" /\ Len(written) = 1) =>
         ServoFramePosition(written[1]) = radians_to_servo_units(arg[1] * 100)
    /\ (op = "A_set_goal_position" /\ Len(written) = 1) =>
         EntryPosition(written[1], 1) = radians_to_servo_units(arg[1] * 100)

(***************************************************************************)
(* C19: given a mapping with an unknown joint name among valid ones,       *)
(* set_position_all does not raise and writes one move frame with exactly  *)
(* one command per valid joint, in the order of the mapping: the joint's   *)
(* servo id, the clamped units of position plus offset, and the shared     *)
(* duration; the unknown joint gets no command.                            *)
(***************************************************************************)
IsKnownItem(item) == item[1] \in KnownJoints

\* the items of the mapping whose joint the robot has, in the mapping's order
ValidItems == SelectSeq(arg[1], IsKnownItem)

SharedDuration == IF arg[2] = PyNone THEN 20 ELSE arg[2].val

\* u is the whole number of units at or below 500 + rad5 / 418.879 (rad5 in
\* 1e-5 rad), clamped to 0..1000
IsClampedUnits(u, rad5) ==
    IF 500 * SpanE5 + rad5 * 1000 <= 0 THEN u = 0
    ELSE IF rad5 * 1000 >= 500 * SpanE5 THEN u = 1000
    ELSE /\ u \in 0..999
         /\ u * SpanE5 <= 500 * SpanE5 + rad5 * 1000
         /\ 500 * SpanE5 + rad5 * 1000 < (u + 1) * SpanE5

C19_UnknownSkipped ==
    (/\ op = "set_position_all"
     /\ Len(ValidItems) > 0
     /\ Len(ValidItems) < Len(arg[1])) =>
        /\ ret = PyNone
        /\ Len(written) = 1
        /\ IsMoveFrame(written[1], Len(ValidItems))
        /\ \A k \in 1..Len(ValidItems) :
             /\ EntryId(written[1], k) = joints[ValidItems[k][1]]
             /\ IsClampedUnits(EntryPosition(written[1], k),
                               ValidItems[k][2] + joints_offsets[ValidItems[k][1]])
             /\ EntryTime(written[1], k) = SharedDuration

C19_Witness ==
    /\ op = "set_position_all"
    /\ arg[1] = <<(<<"head_yaw", 0>>), (<<"tail", 0>>), (<<"left_knee", 136800>>)>>
    /\ arg[2] = PyVal(1000)
    /\ joints_offsets = TrimOffsets
    /\ Len(written) = 1
    /\ written[1][5] = 2
    /\ EntryId(written[1], 1) = 112
    /\ EntryId(written[1], 2) = 103

(***************************************************************************)
(* C20: set_position with an unknown joint name fails at once with an      *)
(* error and writes no byte; with a known joint name it writes exactly one *)
(* move frame of a single entry, for that joint's servo id.                *)
(***************************************************************************)
C20_SetPosition ==
    op = "set_position" =>
        IF arg[1] \in KnownJoints
        THEN /\ ret = PyNone
             /\ Len(written) = 1
             /\ IsMoveFrame(written[1], 1)
             /\ EntryId(written[1], 1) = joints[arg[1]]
        ELSE /\ ret = PyRaise("ValueError")
             /\ written = <<>>

C20_Witness ==
    /\ op = "set_position"
    /\ arg[1] = "tail"
    /\ ret = PyRaise("ValueError")
    /\ written = <<>>

(***************************************************************************)
(* Helpers of the speed estimator properties.                              *)
(***************************************************************************)
\* this step is a read_data call
ReadDataCall == pc = "ready" /\ pc' = "returned" /\ op' = "read_data"

(***************************************************************************)
(* C16: the first read_data call on a speed-estimating client after its    *)
(* construction reports speed 0 and does not fail, whatever position is    *)
(* read and whether or not the position read succeeded.                    *)
(***************************************************************************)
C16_FirstSample ==
    [][(ReadDataCall /\ op = "init") =>
           (ret'.kind = "value" /\ ret'.val.speed = ZeroSpeed)]_vars

(***************************************************************************)
(* C17: of two consecutive read_data calls that sample position p0 at time *)
(* t0 and then p1 at time t1, the second reports exactly                   *)
(* (p1 - p0) / (t1 - t0) when t1 > t0 and exactly 0 when t1 <= t0; nothing *)
(* is divided by a non-positive dt.                                        *)
(***************************************************************************)
C17_SecondSample ==
    [][(/\ ReadDataCall
        /\ last_position # PyNone /\ last_time # PyNone
        /\ ret'.kind = "value") =>
           LET p0 == last_position.val
               t0 == last_time.val
               p1 == ret'.val.position
               t1 == arg'
           IN  /\ ret'.val.speed.den > 0
               /\ t1 > t0 => ret'.val.speed = [num |-> p1 - p0, den |-> t1 - t0]
               /\ t1 <= t0 => ret'.val.speed = ZeroSpeed]_vars

C17_Witness ==
    /\ op = "read_data"
    /\ ret.kind = "value"
    /\ ret.val.position = 500
    /\ ret.val.speed = [num |-> 1000, den |-> 2]
    /\ arg = 2

(***************************************************************************)
(* C18: after every read_data call on a speed-estimating client            *)
(* last_position is the position the call returned and last_time the       *)
(* timestamp it took, also on the first sample, when dt <= 0, and when the *)
(* position read failed and gave the default 0.0.                          *)
(***************************************************************************)
C18_SampleKept ==
    (op = "read_data" /\ ret.kind = "value") =>
        /\ last_position = PyVal(ret.val.position)
        /\ last_time = PyVal(arg)

C18_Witness ==
    /\ op = "read_data"
    /\ client = "servo_est"
    /\ stream = <<>>
    /\ ret.kind = "value"
    /\ ret.val.position = 0
    /\ ret.val.speed = ZeroSpeed
    /\ last_position = PyVal(0)
    /\ last_time = PyVal(0)

(***************************************************************************)
(* Helpers of the get_present_positions properties.                        *)
(***************************************************************************)
\* what read_servo_positions returned in this get_present_positions call
BoardAnswer == PositionsResult(BoardReadResponse(stream).ret)

\* the joints not ignored in this call, by their index in JointNames
Kept == {i \in 1..Len(JointNames) : ~InSeq(JointNames[i], arg)}

(***************************************************************************)
(* C21 as stated: get_present_positions always returns an array with one   *)
(* entry per joint not ignored, for every outcome of the board read, the   *)
(* read timing out or failing included.                                    *)
(***************************************************************************)
C21_AlwaysAnArray ==
    op = "get_present_positions" =>
        /\ ret.kind = "value"
        /\ Len(ret.val) = Cardinality(Kept)

(***************************************************************************)
(* C21: when the board read returns a list of reports, complete, partial   *)
(* or empty, get_present_positions returns an array with exactly one entry *)
(* per joint not ignored, in declaration order, and a joint whose servo id *)
(* is absent from the list gets 0.0; when the board read returns None      *)
(* (timeout, incomplete frame) or raises, get_present_positions returns    *)
(* None.                                                                   *)
(***************************************************************************)
C21_ArrayOrNone ==
    op = "get_present_positions" =>
        IF BoardAnswer.kind = "value"
        THEN /\ ret.kind = "value"
             /\ Len(ret.val) = Cardinality(Kept)
             /\ \A i \in Kept :
                  LET v == ret.val[ResultIndex(i, arg)]
                  IN  IF HasUnits(BoardAnswer.val, JointIds[i])
                      THEN v = Around3(servo_units_to_radians(
                                           UnitsOf(BoardAnswer.val, JointIds[i]))
                                       - joints_offsets[JointNames[i]] * 1000)
                      ELSE v = 0
        ELSE ret = PyNone

C21_Witness ==
    /\ op = "get_present_positions"
    /\ arg = <<"left_knee">>
    /\ joints_offsets = NoOffsets
    /\ BoardAnswer = PyVal(<<(<<112, 1000>>)>>)
    /\ ret.kind = "value"
    /\ Len(ret.val) = 13
    /\ ret.val[7] = 2094
    /\ ret.val[1] = 0 /\ ret.val[13] = 0

(***************************************************************************)
(* C22: every frame the board client writes is 0x55 0x55, Length, Command, *)
(* params, Checksum: its last byte is the one's complement, truncated to   *)
(* 8 bits, of the sum of the bytes from Length through the last parameter. *)
(***************************************************************************)
C22_BoardChecksum ==
    client = "board" =>
        \A i \in 1..Len(written) :
            LET f == written[i]
            IN  /\ Len(f) >= 5
                /\ f[Len(f)] = 255 - (SumRange(f, 3, Len(f) - 1) % 256)
                /\ (op = "B_send_command" =>
                        /\ Len(f) = Len(arg.params) + 5
                        /\ SubSeq(f, 5, Len(f) - 1) = arg.params)

(***************************************************************************)
(* Helpers: the value the length byte of the frame of this call would      *)
(* take, for the calls that hand a parameter list of any length on.        *)
(***************************************************************************)
EncodingOps == {"S_send_command", "B_send_command", "move_servos"}

LengthByte ==
    IF op = "S_send_command" THEN Len(arg.params) + 3
    ELSE IF op = "B_send_command" THEN Len(arg.params) + 2
    ELSE 2 + 1 + 5 * Len(arg)

(***************************************************************************)
(* C23 as stated: a command whose parameter count would push the length    *)
(* byte past 255 is rejected with an InvalidParameterLength failure and no *)
(* byte of its frame is written.                                           *)
(***************************************************************************)
C23_InvalidParameterLength ==
    (op \in EncodingOps /\ LengthByte > 255) =>
        /\ ret = PyRaise("InvalidParameterLength")
        /\ written = <<>>

(***************************************************************************)
(* C23: a command whose parameter count would push the length byte         *)
(* (len(params) + 3 single-servo, len(params) + 2 board, e.g. a move batch *)
(* of more than 50 servos) past 255 is rejected with the ValueError that   *)
(* the conversion of the frame to bytes raises, and no byte of the frame   *)
(* is written; with a length byte of 255 or less the frame is written.     *)
(***************************************************************************)
C23_LengthRejected ==
    op \in EncodingOps =>
        IF LengthByte > 255
        THEN /\ ret = PyRaise("ValueError")
             /\ written = <<>>
        ELSE /\ ret.kind # "raise"
             /\ Len(written) = 1
             /\ written[1][IF op = "S_send_command" THEN 4 ELSE 3] = LengthByte

C23_Witness ==
    /\ op = "move_servos"
    /\ Len(arg) = 51
    /\ ret = PyRaise("ValueError")
    /\ written = <<>>

(***************************************************************************)
(* C24: no retries.  Every protocol operation writes exactly one request   *)
(* frame per call, whatever the outcome of the read that follows (timeout, *)
(* short read, malformed frame); the one call that writes none is the one  *)
(* whose frame is refused before the write (C23).                          *)
(***************************************************************************)
ProtocolOps ==
    {"read_position", "read_voltage", "read_temperature",
     "set_goal_position", "set_torque_enable",
     "move_servos", "unload_servos", "read_servo_positions", "get_battery_voltage"}

C24_OneRequest ==
    op \in ProtocolOps =>
        /\ Len(written) <= 1
        /\ Len(written) = 0 => ret = PyRaise("ValueError")
        /\ Len(written) = 1 =>
             IF client = "servo" THEN IsServoFrame(written[1])
             ELSE IsBoardFrame(written[1])

C24_Witness ==
    /\ op = "read_position"
    /\ stream = <<85, 85, 1>>
    /\ ret = PyVal(0)
    /\ Len(written) = 1

(***************************************************************************)
(* C25: every read operation ends for every input stream and, when no      *)
(* valid frame arrives in time (no bytes at all, a single dangling byte,   *)
(* only non-header bytes), yields its failure value (None, 0 or 0.0).      *)
(***************************************************************************)
C25_FailureValue ==
    (op \in ServoReads \cup BoardReads /\ NoHeaderPair(stream, Len(stream))) =>
        (ret = PyNone \/ ret = PyVal(0))

(***************************************************************************)
(* C26: every position read_position returns corresponds to a device unit  *)
(* value in 0..1000 (the value kept here is units - 500): a raw position   *)
(* outside that range is clamped at the boundary.                          *)
(***************************************************************************)
C26_PositionClamped ==
    (op = "read_position" /\ ret.kind = "value") => ret.val \in (-500)..500

(***************************************************************************)
(* C27: unload_servos(ids) writes exactly one frame 0x55 0x55, length      *)
(* len(ids) + 3, command 0x14, count len(ids), then the given ids in       *)
(* order and nothing else, and reads no response.                          *)
(***************************************************************************)
C27_UnloadFrame ==
    op = "unload_servos" =>
        /\ ret = PyVal(TRUE)
        /\ written = <<(<<85, 85, Len(arg) + 3, 20, Len(arg)>> \o arg)>>
        /\ stream = <<>>

C27_Witness ==
    /\ op = "unload_servos"
    /\ arg = <<2, 1>>
    /\ written = <<(<<85, 85, 5, 20, 2, 2, 1>>)>>

(***************************************************************************)
(* C28: turn_off writes exactly one multi-unload frame whose id list holds *)
(* the servo id of every configured joint exactly once, all 14 joints,     *)
(* whatever was called before.                                             *)
(***************************************************************************)
C28_TurnOff ==
    op = "turn_off" =>
        /\ ret = PyNone
        /\ Len(written) = 1
        /\ LET f == written[1]
           IN  /\ Len(f) = 19
               /\ SubSeq(f, 1, 5) = <<85, 85, 17, 20, 14>>
               /\ Cardinality(KnownJoints) = 14
               /\ \A n \in KnownJoints :
                    Cardinality({k \in 6..19 : f[k] = joints[n]}) = 1

C28_Witness ==
    /\ op = "turn_off"
    /\ rx # <<>>
    /\ Len(written) = 1
    /\ written[1][5] = 14

(***************************************************************************)
(* C29: each operation puts its opcode in the command byte of the frame it *)
(* writes: single-servo set_goal_position 1, set_torque_enable 31 (with    *)
(* parameter 1 for on and 0 for off), read_position 28, read_voltage 27,   *)
(* read_temperature 26; board move_servos 0x03, get_battery_voltage 0x0F,  *)
(* unload_servos 0x14, read_servo_positions 0x15.                          *)
(***************************************************************************)
C29_Opcodes ==
    (op \in ProtocolOps /\ Len(written) = 1) =>
        LET f == written[1]
        IN  /\ op = "set_goal_position" => f[5] = 1
            /\ op = "set_torque_enable" =>
                 /\ f[5] = 31
                 /\ Len(f) = 7
                 /\ f[6] = (IF arg THEN 1 ELSE 0)
            /\ op = "read_position" => f[5] = 28
            /\ op = "read_voltage" => f[5] = 27
            /\ op = "read_temperature" => f[5] = 26
            /\ op = "move_servos" => f[4] = 3
            /\ op = "get_battery_voltage" => f[4] = 15
            /\ op = "unload_servos" => f[4] = 20
            /\ op = "read_servo_positions" => f[4] = 21

C29_Witness ==
    /\ op = "set_torque_enable"
    /\ arg = FALSE
    /\ Len(written) = 1
    /\ written[1][5] = 31
    /\ written[1][6] = 0

(***************************************************************************)
(* C30: a query never returns data parsed from a frame that is not the     *)
(* reply to its own request: when the frame found in the input is the      *)
(* reply to a query of another kind (a late reply of an earlier query), a  *)
(* single-servo read returns its failure value and a board query None.     *)
(***************************************************************************)
\* the opcode of the request of each query
OwnCommand(o) ==
    IF o = "read_position" THEN CMD_SERVO_POS_READ
    ELSE IF o = "read_voltage" THEN CMD_SERVO_VIN_READ
    ELSE IF o = "read_temperature" THEN CMD_SERVO_TEMP_READ
    ELSE IF o = "get_battery_voltage" THEN BOARD_CMD_GET_BATTERY_VOLTAGE
    ELSE BOARD_CMD_MULT_SERVO_POS_READ

Queries ==
    {"read_position", "read_voltage", "read_temperature",
     "get_battery_voltage", "read_servo_positions"}

\* the input of this call starts with a whole frame of another command
StaleFrameFirst ==
    IF client = "servo"
    THEN /\ IsServoFrame(stream)
         /\ stream[5] # OwnCommand(op)
    ELSE /\ IsBoardFrame(stream)
         /\ stream[4] # OwnCommand(op)

C30_NoStaleData ==
    (op \in Queries /\ StaleFrameFirst) => (ret = PyNone \/ ret = PyVal(0))

(***************************************************************************)
(* C32: HiwonderBoardController._read_response called with a timeout       *)
(* override leaves serial.timeout equal to its value before the call on    *)
(* every exit path: frame returned, None returned, exception raised.       *)
(***************************************************************************)
C32_TimeoutRestored ==
    [][op' \in BoardReads => timeout' = timeout]_vars

C32_Witness ==
    /\ op = "B_read_response"
    /\ arg = PyVal(1000)
    /\ ret = PyRaise("TypeError")
    /\ timeout = ConfiguredTimeout("board")

(***************************************************************************)
(* C33: HWI.get_present_positions never raises: any failure of the board   *)
(* read, an exception raised inside the board's frame scan included, is    *)
(* reported by returning None, and the offsets of the HWI object (its      *)
(* joint table is fixed) are unchanged by the call.                        *)
(***************************************************************************)
C33_NeverRaises ==
    [][op' = "get_present_positions" =>
          /\ ret'.kind # "raise"
          /\ BoardReadResponse(stream').ret.kind = "raise" => ret' = PyNone
          /\ joints_offsets' = joints_offsets]_vars

C33_Witness ==
    /\ op = "get_present_positions"
    /\ BoardReadResponse(stream).ret = PyRaise("TypeError")
    /\ ret = PyNone
    /\ joints_offsets = TrimOffsets

(***************************************************************************)
(* C34: in the board adapter set_torque_enable(True) writes no byte, and   *)
(* set_torque_enable(False) writes exactly one multi-unload frame that     *)
(* names only the adapter's own servo id.                                  *)
(***************************************************************************)
C34_AdapterTorque ==
    op = "A_set_torque_enable" =>
        /\ ret = PyNone
        /\ arg => written = <<>>
        /\ ~arg => written = <<(<<85, 85, 4, BOARD_CMD_MULT_SERVO_UNLOAD, 1, servo_id>>)>>

C34_Witness ==
    /\ op = "A_set_torque_enable"
    /\ arg = TRUE
    /\ written = <<>>
    /\ pc = "returned"

(***************************************************************************)
(* C35: the board adapter's set_goal_position transmits a duration of 0 as *)
(* the time field 20, never 0, and every other duration unchanged modulo   *)
(* 2^16; the single-servo client transmits duration 0 as time field 0.     *)
(***************************************************************************)
C35_DurationDefault ==
    /\ op = "A_set_goal_position" =>
         /\ Len(written) = 1
         /\ IsMoveFrame(written[1], 1)
         /\ EntryTime(written[1], 1) = (IF arg[2] = 0 THEN 20 ELSE arg[2] % 65536)
         /\ EntryTime(written[1], 1) # 0 \/ arg[2] % 65536 = 0
    /\ op = "set_goal_position" =>
         /\ Len(written) = 1
         /\ Word(written[1][8], written[1][9]) = arg[2] % 65536

C35_Witness ==
    /\ op = "A_set_goal_position"
    /\ arg[2] = 0
    /\ EntryTime(written[1], 1) = 20

(***************************************************************************)
(* C39: position and duration fields are the two little-endian bytes of    *)
(* the value modulo 65536: for a value in 0..65535 the transmitted pair    *)
(* satisfies lo | (hi << 8) = value, and a duration of 65536 or more is    *)
(* not rejected but sent as duration mod 65536, in set_goal_position and   *)
(* in move_servos.                                                         *)
(***************************************************************************)
C39_LittleEndianWrap ==
    /\ (op = "move_servos" /\ 2 + 1 + 5 * Len(arg) <= 255) =>
         /\ ret = PyVal(TRUE)
         /\ Len(written) = 1
         /\ \A k \in 1..Len(arg) :
              LET f == written[1]
              IN  /\ f[5 * k + 2] = arg[k][2] % 256
                  /\ f[5 * k + 3] = (arg[k][2] \div 256) % 256
                  /\ f[5 * k + 4] = arg[k][3] % 256
                  /\ f[5 * k + 5] = (arg[k][3] \div 256) % 256
                  /\ arg[k][2] \in 0..65535 => EntryPosition(f, k) = arg[k][2]
                  /\ arg[k][3] \in 0..65535 => EntryTime(f, k) = arg[k][3]
                  /\ EntryTime(f, k) = arg[k][3] % 65536
    /\ (op = "set_goal_position" /\ client = "servo") =>
         /\ ret = PyNone
         /\ Len(written) = 1
         /\ LET f == written[1]
            IN  /\ IsByteList(f)
                /\ Word(f[6], f[7]) = RadToUnits(arg[1])
                /\ arg[2] \in 0..65535 => Word(f[8], f[9]) = arg[2]
                /\ Word(f[8], f[9]) = arg[2] % 65536

C39_Witness ==
    /\ op = "move_servos"
    /\ arg = <<(<<1, 500, 65556>>)>>
    /\ ret = PyVal(TRUE)
    /\ EntryTime(written[1], 1) = 20

(***************************************************************************)
(* C38: the two speed estimators are one behaviour: fed the same sequence  *)
(* of (timestamp, position) samples they report the same speed at every    *)
(* step and hold the same (last_position, last_time) after every step.     *)
(***************************************************************************)
C38_SameEstimator ==
    client = "pair" =>
        /\ board_last_position = last_position
        /\ board_last_time = last_time
        /\ op = "feed" =>
             /\ ret.val.board = ret.val.servo
             /\ last_position = PyVal(arg[2])
             /\ last_time = PyVal(arg[1])

\* the second of two samples with time between them: a non-zero speed
C38_Witness ==
    /\ op = "feed"
    /\ arg = <<2, 110>>
    /\ ret.val.servo = [num |-> 116, den |-> 1]
    /\ ret.val.board = [num |-> 116, den |-> 1]
    /\ board_last_position = PyVal(110)

(***************************************************************************)
(* C36: in the main loop of record.py every tick sends set_torque_enable   *)
(* exactly when the trajectory's flag of the tick differs from the flag    *)
(* applied before, with the new flag as its argument, sends                *)
(* set_goal_position exactly when the flag of the tick is true, and        *)
(* appends exactly one entry.  Every iteration of the initialization       *)
(* phase ends with set_torque_enable(torque_enable), so that with the      *)
(* tick rule the variable torque_enable is the argument of the last        *)
(* set_torque_enable sent throughout the main loop.                        *)
(***************************************************************************)
TorqueCommands(w) ==
    SelectSeq(w, LAMBDA f : f[5] = CMD_SERVO_LOAD_OR_UNLOAD_WRITE)

GoalCommands(w) ==
    SelectSeq(w, LAMBDA f : f[5] = CMD_SERVO_MOVE_TIME_WRITE)

TorqueArgument(f) == f[6] = 1

C36_TickCommands ==
    [][client = "record" =>
        /\ op' = "initialize" =>
             /\ written' # <<>>
             /\ written'[Len(written')][5] = CMD_SERVO_LOAD_OR_UNLOAD_WRITE
             /\ TorqueArgument(written'[Len(written')]) = torque_enable'
        /\ op' = "tick" =>
             LET flag == arg'[2]
                 sent == TorqueCommands(written')
             IN  /\ Len(sent) = (IF flag # torque_enable THEN 1 ELSE 0)
                 /\ sent # <<>> => TorqueArgument(sent[1]) = flag
                 /\ torque_enable' = flag
                 /\ Len(GoalCommands(written')) = (IF flag THEN 1 ELSE 0)
                 /\ Len(entries') = Len(entries) + 1
                 /\ entries'[Len(entries')].torque_enable = flag
                 /\ \A k \in 1..Len(entries) : entries'[k] = entries[k]]_vars

C36_Witness ==
    /\ client = "record"
    /\ op = "tick"
    /\ arg = <<300, TRUE>>
    /\ Len(written) = 5
    /\ written[1] = <<85, 85, 1, 4, 31, 1, 218>>
    /\ written[2][5] = CMD_SERVO_MOVE_TIME_WRITE
    /\ Len(entries) = 2
    /\ ~entries[1].torque_enable

(***************************************************************************)
(* C37: the return-to-zero loop of both scripts ends.  With p the last     *)
(* recorded position it makes at most ceil(|p| / 0.01) set_goal_position   *)
(* calls, each goal is within 0.01 rad of the goal before it, nearer to    *)
(* zero and on the same side of zero, and the loop is left with            *)
(* |goal| <= 0.01.                                                         *)
(***************************************************************************)
LastRecorded == PositionMrad(entries[Len(entries)].position)

C37_ReturnToZero ==
    /\ [](pc \in {"returning", "closed"} =>
            /\ return_calls = 0 => goal_position = LastRecorded
            /\ return_calls > 0 =>
                 (return_calls - 1) * max_variation < Abs(LastRecorded))
    /\ [][op' = "return_to_zero" =>
            /\ Abs(goal_position' - goal_position) <= max_variation
            /\ Abs(goal_position') < Abs(goal_position)
            /\ goal_position > 0 => goal_position' >= 0
            /\ goal_position < 0 => goal_position' <= 0
            /\ return_calls' = return_calls + 1
            /\ Len(written') = 1]_vars
    /\ [](pc = "closed" => Abs(goal_position) <= max_variation)
    /\ (pc = "returning") ~> (pc = "closed")

C37_Witness ==
    /\ pc = "closed"
    /\ client = "record_board"
    /\ LastRecorded = -56
    /\ return_calls = 5
    /\ goal_position = -6

(***************************************************************************)
(* C31: a recording script that has started its recording loop eventually  *)
(* sends the torque-disable command of its servo and closes the connection *)
(* with that command as the last frame written, also when a telemetry read *)
(* fails or noise arrives during recording.                                *)
(***************************************************************************)
TorqueDisable ==
    IF client = "record"
    THEN <<ServoPacket(servo_id, CMD_SERVO_LOAD_OR_UNLOAD_WRITE, <<0>>)>>
    ELSE <<(<<85, 85, 4, BOARD_CMD_MULT_SERVO_UNLOAD, 1, servo_id>>)>>

C31_TorqueDisabledAtEnd ==
    (pc = "recording") ~> (pc = "closed" /\ written = TorqueDisable)
====
